---- MODULE Spec2Model ----
(***************************************************************************)
(* Model of the order_helper allocation engine: the data model             *)
(* (domain/models.py), the priority calculator and the greedy capacity     *)
(* scheduler (planner/algorithms.py), the event taxonomy                   *)
(* (domain/events.py) and the two agents that share one asyncio queue      *)
(* (planner/planner_agent.py, planner/worker_agent.py, main.py).           *)
(*                                                                         *)
(* Hours and quantities are integers.  A datetime is a number of ticks,    *)
(* TicksPerDay ticks to the day; a date is a day number.                   *)
(***************************************************************************)
EXTENDS Integers, Sequences, FiniteSets, TLC

VARIABLES
    calc,       \* the PriorityCalculator: urgency_thresholds, size_threshold
    workers,    \* the Worker objects, shared by the scheduler and the agents
    orders,     \* the orders: the list given to the scheduler / PlannerAgent.orders
    schedule,   \* Scheduler.schedule (a WorkSchedule's allocation list)
    today,      \* date.today() / the start_date of the schedule
    horizon,    \* the days_ahead given to create_schedule
    exc,        \* the exception the last operation raised, or "none"
    last,       \* the last operation performed
    result,     \* the value the last operation returned
    calls,      \* the number of operations performed from outside
    queue,      \* the shared asyncio.Queue: the events not yet taken
    active_bids,\* PlannerAgent.active_bids: document number -> responses
    agents,     \* per worker, WorkerAgent.allocations and .active_bids
    sent,       \* history: every item ever put on the queue, in order
    delivered   \* history: the items taken from the queue, and by whom

agentVars == <<queue, active_bids, agents, sent, delivered>>

vars == <<calc, workers, orders, schedule, today, horizon, exc, last, result, calls,
          queue, active_bids, agents, sent, delivered>>

\* ------------------------------------------------------------------ bounds
MaxOrders == 2
MaxQty == 2
MaxCycle == 2
MaxHours == 2
MaxDays == 2
MaxDue == 3
MaxDaysLeft == 12
TicksPerDay == 2
NumWorkers == 2
MaxCalls == 2
MaxPuts == 3

\* ------------------------------------------------------- generic helpers
Min(a, b) == IF a <= b THEN a ELSE b

Max(a, b) == IF a >= b THEN a ELSE b

RECURSIVE SumSeq(_)
SumSeq(s) == IF s = <<>> THEN 0 ELSE Head(s) + SumSeq(Tail(s))

\* Python's sorted(): a stable sort.  Less(a, b) is "key(a) < key(b)" and
\* Same(a, b) is "key(a) = key(b)"; an element goes after every element of
\* smaller key and after the earlier elements of equal key.
StableSorted(s, Less(_, _), Same(_, _)) ==
    LET n == Len(s)
        pos(i) == 1 + Cardinality({j \in 1..n : Less(s[j], s[i])})
                    + Cardinality({j \in 1..(i - 1) : Same(s[j], s[i])})
    IN  [p \in 1..n |-> s[CHOOSE i \in 1..n : pos(i) = p]]

\* ------------------------------------------------------------ data model
\* Optional[int] = None
None == -99

\* PriorityLevel: the values of the enumeration
LOW == 0
MEDIUM == 2
CRITICAL == 5

PriorityLevelValues == LOW..CRITICAL

\* Worker(id, name, hours_per_day, skills), availability = {}
Worker(id, hours_per_day, skills) ==
    [id |-> id, hours_per_day |-> hours_per_day, skills |-> skills,
     availability |-> <<>>]

\* Order(...), calculated_priority = PriorityLevel.MEDIUM
Order(code, doc_number, ordered_qty, consumed_qty, cycle_time, due_date, priority_manual) ==
    [code |-> code, doc_number |-> doc_number, ordered_qty |-> ordered_qty,
     consumed_qty |-> consumed_qty, cycle_time |-> cycle_time,
     due_date |-> due_date, priority_manual |-> priority_manual,
     calculated_priority |-> MEDIUM]

\* datetime.date(): the day a datetime falls in
DateOf(dt) == dt \div TicksPerDay

\* pending_qty that never goes below zero
pending_qty_Clamped(o) == Max(o.ordered_qty - o.consumed_qty, 0)

\* Order.pending_qty
pending_qty(o) == o.ordered_qty - o.consumed_qty

\* Order.remaining_work_hours
remaining_work_hours(o) == pending_qty(o) * o.cycle_time

\* Worker.get_available_hours: availability.get(day, hours_per_day)
get_available_hours(w, day) ==
    IF day \in DOMAIN w.availability THEN w.availability[day] ELSE w.hours_per_day

\* allocate_hours that forgets to take the hours off the availability
allocate_hours_NoDecrement(w, day, hours) ==
    LET available == get_available_hours(w, day)
        allocated == Min(available, hours)
    IN  [worker |-> [w EXCEPT !.availability = (day :> available) @@ w.availability],
         allocated |-> allocated]

\* allocate_hours that gives the hours asked for, whatever is available
allocate_hours_Unchecked(w, day, hours) ==
    [worker |-> [w EXCEPT !.availability =
                    (day :> (get_available_hours(w, day) - hours)) @@ w.availability],
     allocated |-> hours]

\* Worker.allocate_hours: the worker afterwards and the hours allocated
allocate_hours(w, day, hours) ==
    LET available == get_available_hours(w, day)
        allocated == Min(available, hours)
    IN  [worker |-> [w EXCEPT !.availability =
                        (day :> (available - allocated)) @@ w.availability],
         allocated |-> allocated]

\* Allocation(order_code, worker_id, allocation_date, hours), completed = False
Allocation(order_code, worker_id, day, hours) ==
    [order_code |-> order_code, worker_id |-> worker_id,
     allocation_date |-> day, hours |-> hours, completed |-> FALSE]

\* WorkSchedule.get_worker_schedule
get_worker_schedule(sch, worker_id) ==
    SelectSeq(sch, LAMBDA a : a.worker_id = worker_id)

\* WorkSchedule.get_order_schedule
get_order_schedule(sch, order_code) ==
    SelectSeq(sch, LAMBDA a : a.order_code = order_code)

\* WorkSchedule.get_day_schedule
get_day_schedule(sch, day) ==
    SelectSeq(sch, LAMBDA a : a.allocation_date = day)

\* sum of the hours of a list of allocations
RECURSIVE TotalHours(_)
TotalHours(as) == IF as = <<>> THEN 0 ELSE Head(as).hours + TotalHours(Tail(as))

\* ----------------------------------------------------- priority calculator
\* PriorityLevel(v): the enumeration's constructor raises ValueError for a
\* value that is not one of its members
PriorityLevel(v) ==
    IF v \in PriorityLevelValues
    THEN [exc |-> "none", value |-> v]
    ELSE [exc |-> "ValueError", value |-> v]

\* compute_priority comparing the days left with "<" where the code has "<="
compute_priority_StrictUrgency(pcalc, order, day) ==
    IF order.priority_manual # None
    THEN PriorityLevel(Min(order.priority_manual, 5))
    ELSE LET days_left == DateOf(order.due_date) - day
             urgency == IF days_left < pcalc.urgency_thresholds[1] THEN 3
                        ELSE IF days_left < pcalc.urgency_thresholds[2] THEN 2
                        ELSE IF days_left < pcalc.urgency_thresholds[3] THEN 1
                        ELSE 0
             size_hours == pending_qty(order) * order.cycle_time
             size == IF size_hours > pcalc.size_threshold THEN 1 ELSE 0
             raw_priority == Min(urgency + size + 1, 5)
         IN  PriorityLevel(raw_priority)

\* compute_priority clamping the manual override on the low side too
compute_priority_ClampLow(pcalc, order, day) ==
    IF order.priority_manual # None
    THEN PriorityLevel(Max(0, Min(order.priority_manual, 5)))
    ELSE LET days_left == DateOf(order.due_date) - day
             urgency == IF days_left <= pcalc.urgency_thresholds[1] THEN 3
                        ELSE IF days_left <= pcalc.urgency_thresholds[2] THEN 2
                        ELSE IF days_left <= pcalc.urgency_thresholds[3] THEN 1
                        ELSE 0
             size_hours == pending_qty(order) * order.cycle_time
             size == IF size_hours > pcalc.size_threshold THEN 1 ELSE 0
             raw_priority == Min(urgency + size + 1, 5)
         IN  PriorityLevel(raw_priority)

\* PriorityCalculator.compute_priority
compute_priority(pcalc, order, day) ==
    IF order.priority_manual # None
    THEN PriorityLevel(Min(order.priority_manual, 5))
    ELSE LET days_left == DateOf(order.due_date) - day
             urgency == IF days_left <= pcalc.urgency_thresholds[1] THEN 3
                        ELSE IF days_left <= pcalc.urgency_thresholds[2] THEN 2
                        ELSE IF days_left <= pcalc.urgency_thresholds[3] THEN 1
                        ELSE 0
             size_hours == pending_qty(order) * order.cycle_time
             size == IF size_hours > pcalc.size_threshold THEN 1 ELSE 0
             raw_priority == Min(urgency + size + 1, 5)
         IN  PriorityLevel(raw_priority)

\* ---------------------------------------------------------------- scheduler
\* prioritize_orders that sorts by due date only
prioritize_orders_ByDueDate(pcalc, os, day) ==
    LET n == Len(os)
        bad == {i \in 1..n : compute_priority(pcalc, os[i], day).exc # "none"}
        k == IF bad = {} THEN n + 1 ELSE CHOOSE i \in bad : \A j \in bad : i <= j
        updated == [i \in 1..n |->
                      IF i < k
                      THEN [os[i] EXCEPT !.calculated_priority =
                                compute_priority(pcalc, os[i], day).value]
                      ELSE os[i]]
    IN  [exc |-> IF bad = {} THEN "none" ELSE "ValueError",
         orders |-> updated,
         sorted |-> IF bad = {} THEN StableSorted(updated,
                                         LAMBDA a, b : a.due_date < b.due_date,
                                         LAMBDA a, b : a.due_date = b.due_date)
                    ELSE <<>>]

\* Scheduler.prioritize_orders: the loop stores each computed level in the
\* order until a computation raises; the result is sorted by
\* (5 - level, due_date).  orders: the caller's list after the call.
prioritize_orders(pcalc, os, day) ==
    LET n == Len(os)
        bad == {i \in 1..n : compute_priority(pcalc, os[i], day).exc # "none"}
        k == IF bad = {} THEN n + 1 ELSE CHOOSE i \in bad : \A j \in bad : i <= j
        updated == [i \in 1..n |->
                      IF i < k
                      THEN [os[i] EXCEPT !.calculated_priority =
                                compute_priority(pcalc, os[i], day).value]
                      ELSE os[i]]
        Less(a, b) == \/ 5 - a.calculated_priority < 5 - b.calculated_priority
                      \/ /\ a.calculated_priority = b.calculated_priority
                         /\ a.due_date < b.due_date
        Same(a, b) == /\ a.calculated_priority = b.calculated_priority
                      /\ a.due_date = b.due_date
    IN  [exc |-> IF bad = {} THEN "none" ELSE "ValueError",
         orders |-> updated,
         sorted |-> IF bad = {} THEN StableSorted(updated, Less, Same) ELSE <<>>]

\* workers_sorted that takes every worker, whatever its skills
workers_sorted_AnyWorker(ws, order, day) ==
    StableSorted([i \in 1..Len(ws) |-> i],
        LAMBDA i, j : get_available_hours(ws[i], day) > get_available_hours(ws[j], day),
        LAMBDA i, j : get_available_hours(ws[i], day) = get_available_hours(ws[j], day))

\* workers_sorted that sorts by available hours on the day, smallest first
workers_sorted_Ascending(ws, order, day) ==
    LET idx == [i \in 1..Len(ws) |-> i]
        eligible == SelectSeq(idx, LAMBDA i :
                        ws[i].skills = {} \/ order.code \in ws[i].skills)
    IN  StableSorted(eligible,
            LAMBDA i, j : get_available_hours(ws[i], day) < get_available_hours(ws[j], day),
            LAMBDA i, j : get_available_hours(ws[i], day) = get_available_hours(ws[j], day))

\* workers_sorted that keeps only the worker with the most available hours
workers_sorted_FirstOnly(ws, order, day) ==
    LET idx == [i \in 1..Len(ws) |-> i]
        eligible == SelectSeq(idx, LAMBDA i :
                        ws[i].skills = {} \/ order.code \in ws[i].skills)
        sorted == StableSorted(eligible,
            LAMBDA i, j : get_available_hours(ws[i], day) > get_available_hours(ws[j], day),
            LAMBDA i, j : get_available_hours(ws[i], day) = get_available_hours(ws[j], day))
    IN  SubSeq(sorted, 1, Min(1, Len(sorted)))

\* the eligible workers of an order, as indices into the worker list, sorted
\* by available hours on the day, largest first (sorted(..., reverse=True)
\* keeps the list order among equal keys)
workers_sorted(ws, order, day) ==
    LET idx == [i \in 1..Len(ws) |-> i]
        eligible == SelectSeq(idx, LAMBDA i :
                        ws[i].skills = {} \/ order.code \in ws[i].skills)
    IN  StableSorted(eligible,
            LAMBDA i, j : get_available_hours(ws[i], day) > get_available_hours(ws[j], day),
            LAMBDA i, j : get_available_hours(ws[i], day) = get_available_hours(ws[j], day))

\* the loop "for worker in workers_sorted" of create_schedule, from position k
\* st: [workers, schedule, remaining], and the orders and exc of the result
RECURSIVE AllocateWorkers(_, _, _, _, _)
AllocateWorkers(st, order, day, sorted, k) ==
    IF k > Len(sorted) THEN st
    ELSE LET i == sorted[k]
             r == allocate_hours(st.workers[i], day, st.remaining)
             ws == [st.workers EXCEPT ![i] = r.worker]
         IN  IF r.allocated > 0
             THEN LET st2 == [st EXCEPT
                              !.workers = ws,
                              !.schedule = Append(st.schedule,
                                  Allocation(order.code, st.workers[i].id, day, r.allocated)),
                              !.remaining = st.remaining - r.allocated]
                  IN  IF st2.remaining <= 0 THEN st2
                      ELSE AllocateWorkers(st2, order, day, sorted, k + 1)
             ELSE AllocateWorkers([st EXCEPT !.workers = ws], order, day, sorted, k + 1)

\* the loop "for day in work_dates" of create_schedule, from the d-th date
RECURSIVE AllocateDays(_, _, _, _, _)
AllocateDays(st, order, start_date, days_ahead, d) ==
    IF d >= days_ahead \/ st.remaining <= 0 THEN st
    ELSE LET day == start_date + d
             sorted == workers_sorted(st.workers, order, day)
         IN  AllocateDays(AllocateWorkers(st, order, day, sorted, 1),
                          order, start_date, days_ahead, d + 1)

\* the order loop that serves an order with negative remaining hours for
\* the magnitude of those hours
RECURSIVE AllocateOrders_Magnitude(_, _, _, _, _)
AllocateOrders_Magnitude(st, prioritized, start_date, days_ahead, n) ==
    IF n > Len(prioritized) THEN st
    ELSE LET order == prioritized[n]
             remaining_hours == Max(remaining_work_hours(order),
                                    -remaining_work_hours(order))
         IN  IF remaining_hours <= 0
             THEN AllocateOrders_Magnitude(st, prioritized, start_date, days_ahead, n + 1)
             ELSE AllocateOrders_Magnitude(
                      AllocateDays([st EXCEPT !.remaining = remaining_hours],
                                   order, start_date, days_ahead, 0),
                      prioritized, start_date, days_ahead, n + 1)

\* the loop "for order in prioritized_orders" of create_schedule
RECURSIVE AllocateOrders(_, _, _, _, _)
AllocateOrders(st, prioritized, start_date, days_ahead, n) ==
    IF n > Len(prioritized) THEN st
    ELSE LET order == prioritized[n]
             remaining_hours == remaining_work_hours(order)
         IN  IF remaining_hours <= 0
             THEN AllocateOrders(st, prioritized, start_date, days_ahead, n + 1)
             ELSE AllocateOrders(
                      AllocateDays([st EXCEPT !.remaining = remaining_hours],
                                   order, start_date, days_ahead, 0),
                      prioritized, start_date, days_ahead, n + 1)

\* create_schedule that goes on from the schedule and the availability of
\* before instead of resetting them
ScheduleOrders_NoReset(ws, sch, p, start_date, days_ahead) ==
    IF p.exc # "none"
    THEN [workers |-> ws, schedule |-> sch, remaining |-> 0,
          exc |-> p.exc, orders |-> p.orders]
    ELSE AllocateOrders(
             [workers |-> ws, schedule |-> sch, remaining |-> 0,
              exc |-> "none", orders |-> p.orders],
             p.sorted, start_date, days_ahead, 1)

\* Scheduler.create_schedule after its call of prioritize_orders, whose
\* outcome is p: the schedule and the availability are reset and the orders
\* allocated; when the call raised, they are the ones of before
ScheduleOrders(ws, sch, p, start_date, days_ahead) ==
    IF p.exc # "none"
    THEN [workers |-> ws, schedule |-> sch, remaining |-> 0,
          exc |-> p.exc, orders |-> p.orders]
    ELSE AllocateOrders(
             [workers |-> [i \in 1..Len(ws) |-> [ws[i] EXCEPT !.availability = <<>>]],
              schedule |-> <<>>, remaining |-> 0,
              exc |-> "none", orders |-> p.orders],
             p.sorted, start_date, days_ahead, 1)

\* Scheduler.create_schedule: the orders, workers and schedule afterwards
create_schedule(pcalc, ws, sch, os, start_date, days_ahead) ==
    ScheduleOrders(ws, sch, prioritize_orders(pcalc, os, start_date),
                   start_date, days_ahead)

\* ------------------------------------------------------------------ events
\* the parameters of the event constructors of domain/events.py
OrderUpdatedParams ==
    {"order_code", "ordered_qty", "consumed_qty", "due_date", "priority_manual", "timestamp"}

OrderCreatedParams ==
    {"order_code", "description", "ordered_qty", "consumed_qty", "cycle_time",
     "doc_number", "doc_date", "due_date", "priority_manual", "timestamp"}

BidRequestParams == {"order_code", "work_hours", "due_date", "timestamp"}

BidResponseParams == {"order_code", "worker_id", "capacity", "proposed_dates", "timestamp"}

AllocationAwardParams == {"order_code", "worker_id", "allocations", "timestamp"}

ProgressUpdateParams ==
    {"order_code", "worker_id", "qty_done", "allocation_date", "timestamp"}

PriorityChangeParams == {"order_code", "new_priority", "timestamp"}

\* a constructor called with keyword arguments: an event holding them as
\* attributes, or TypeError for a keyword that is no parameter
NewEvent(type, params, kw) ==
    IF DOMAIN kw \subseteq params
    THEN [exc |-> "none", event |-> [type |-> type] @@ kw]
    ELSE [exc |-> "TypeError", event |-> [type |-> type]]

\* ScheduleUpdated()
ScheduleUpdated == [type |-> "schedule_updated"]

\* reading event.<name> raises AttributeError when the event has no such
\* attribute
HasAttr(event, name) == name \in DOMAIN event

\* ------------------------------------------------------------ event queue
\* a get() that hands out the newest item instead of the oldest
QueueGet_Last(q) == [item |-> q[Len(q)], rest |-> SubSeq(q, 1, Len(q) - 1)]

\* a get() that leaves the item it hands out on the queue
QueueGet_Keep(q) == [item |-> Head(q), rest |-> q]

\* await event_queue.get(): the first item, and the queue without it
QueueGet(q) == [item |-> Head(q), rest |-> Tail(q)]

\* await event_queue.put(event), for each event of a list in turn; an item
\* is the event, its serial number and the item whose handling put it
QueuePut(q, events, first_id, cause) ==
    q \o [k \in 1..Len(events) |->
            [id |-> first_id + k - 1, cause |-> cause, ev |-> events[k]]]

\* the keys of a dict whose entries were inserted by ascending date
RECURSIVE SortedKeys(_)
SortedKeys(keys) ==
    IF keys = {} THEN <<>>
    ELSE LET k == CHOOSE x \in keys : \A y \in keys : x <= y
         IN  <<k>> \o SortedKeys(keys \ {k})

\* -------------------------------------------------------------- planner
\* the position of a document number in the order table, 0 if absent
OrderIndex(os, doc_number) ==
    IF \E i \in 1..Len(os) : os[i].doc_number = doc_number
    THEN CHOOSE i \in 1..Len(os) : os[i].doc_number = doc_number
    ELSE 0

\* self.orders[order.doc_number] = order
StoreOrder(os, order) ==
    IF OrderIndex(os, order.doc_number) = 0
    THEN Append(os, order)
    ELSE [os EXCEPT ![OrderIndex(os, order.doc_number)] = order]

\* PlannerAgent.start_allocation_process: the open rounds afterwards, the
\* events put and the exception raised
start_allocation_process(ab, order) ==
    LET work_hours == remaining_work_hours(order)
        opened == (order.doc_number :> <<>>) @@ ab
        request == NewEvent("bid_request", BidRequestParams,
                            [order_code |-> order.code, doc_number |-> order.doc_number,
                             work_hours |-> work_hours, due_date |-> order.due_date])
    IN  IF work_hours <= 0
        THEN [active_bids |-> ab, out |-> <<>>, exc |-> "none"]
        ELSE IF request.exc # "none"
        THEN [active_bids |-> opened, out |-> <<>>, exc |-> request.exc]
        ELSE [active_bids |-> opened, out |-> <<request.event>>, exc |-> "none"]

\* PlannerAgent.handle_order_created
handle_order_created(os, ab, event) ==
    LET order == Order(event.order_code, event.doc_number, event.ordered_qty,
                       event.consumed_qty, event.cycle_time, event.due_date,
                       event.priority_manual)
        r == start_allocation_process(ab, order)
    IN  [orders |-> StoreOrder(os, order), active_bids |-> r.active_bids,
         out |-> r.out, exc |-> r.exc]

\* the loop "for day, hours in proposed_dates.items()" of process_bids
\* st: [given, remaining]
RECURSIVE AwardDays(_, _, _)
AwardDays(st, proposed_dates, days) ==
    IF days = <<>> \/ st.remaining <= 0 THEN st
    ELSE LET allocated == Min(proposed_dates[Head(days)], st.remaining)
         IN  AwardDays([given |-> (Head(days) :> allocated) @@ st.given,
                        remaining |-> st.remaining - allocated],
                       proposed_dates, Tail(days))

\* the loop "for bid in bids" of process_bids
\* st: [allocations, served, remaining]; served lists the worker ids in
\* the order their entries were created
RECURSIVE AwardBids(_, _)
AwardBids(st, bids) ==
    IF bids = <<>> \/ st.remaining <= 0 THEN st
    ELSE LET bid == Head(bids)
             known == bid.worker_id \in DOMAIN st.allocations
             before == IF known THEN st.allocations[bid.worker_id] ELSE <<>>
             d == AwardDays([given |-> before, remaining |-> st.remaining],
                            bid.proposed_dates, SortedKeys(DOMAIN bid.proposed_dates))
         IN  AwardBids([allocations |-> (bid.worker_id :> d.given) @@ st.allocations,
                        served |-> IF known THEN st.served
                                   ELSE Append(st.served, bid.worker_id),
                        remaining |-> d.remaining],
                       Tail(bids))

\* the loop "for worker_id, worker_allocations in allocations.items()" of
\* process_bids: the awards built until a constructor raises
RECURSIVE BuildAwards(_, _, _, _)
BuildAwards(order, allocations, served, out) ==
    IF served = <<>> THEN [out |-> out, exc |-> "none"]
    ELSE LET worker_allocations == allocations[Head(served)]
             award == NewEvent("allocation_award", AllocationAwardParams,
                               [order_code |-> order.code, doc_number |-> order.doc_number,
                                worker_id |-> Head(served),
                                allocations |-> worker_allocations])
         IN  IF DOMAIN worker_allocations = {}
             THEN BuildAwards(order, allocations, Tail(served), out)
             ELSE IF award.exc # "none"
             THEN [out |-> out, exc |-> award.exc]
             ELSE BuildAwards(order, allocations, Tail(served), Append(out, award.event))

\* PlannerAgent.process_bids
process_bids(os, ab, doc_number) ==
    IF OrderIndex(os, doc_number) = 0 \/ doc_number \notin DOMAIN ab
    THEN [active_bids |-> ab, out |-> <<>>, exc |-> "none"]
    ELSE LET order == os[OrderIndex(os, doc_number)]
             bids == StableSorted(ab[doc_number],
                         LAMBDA a, b : a.capacity > b.capacity,
                         LAMBDA a, b : a.capacity = b.capacity)
             st == AwardBids([allocations |-> <<>>, served |-> <<>>,
                              remaining |-> remaining_work_hours(order)], bids)
             awards == BuildAwards(order, st.allocations, st.served, <<>>)
         IN  IF awards.exc # "none"
             THEN [active_bids |-> [ab EXCEPT ![doc_number] = bids],
                   out |-> awards.out, exc |-> awards.exc]
             ELSE [active_bids |-> [d \in DOMAIN ab \ {doc_number} |-> ab[d]],
                   out |-> Append(awards.out, ScheduleUpdated), exc |-> "none"]

\* PlannerAgent.handle_bid_response
handle_bid_response(os, ab, ws, event) ==
    IF ~HasAttr(event, "doc_number")
    THEN [active_bids |-> ab, out |-> <<>>, exc |-> "AttributeError"]
    ELSE LET order_code == event.doc_number
             collected == [ab EXCEPT ![order_code] = Append(@, event)]
         IN  IF OrderIndex(os, order_code) = 0 \/ order_code \notin DOMAIN ab
             THEN [active_bids |-> ab, out |-> <<>>, exc |-> "none"]
             ELSE IF Len(collected[order_code]) = Len(ws)
             THEN process_bids(os, collected, order_code)
             ELSE [active_bids |-> collected, out |-> <<>>, exc |-> "none"]


\* PlannerAgent.recalculate_schedule: the rebuild over the orders with a
\* positive pending quantity; the orders it is given are the objects of the
\* order table, which so receive their computed priority
Rebuilt(os, r) ==
    [orders |-> [i \in 1..Len(os) |->
                    IF OrderIndex(r.orders, os[i].doc_number) = 0 THEN os[i]
                    ELSE r.orders[OrderIndex(r.orders, os[i].doc_number)]],
     workers |-> r.workers, schedule |-> r.schedule,
     out |-> IF r.exc = "none" THEN <<ScheduleUpdated>> ELSE <<>>,
     exc |-> r.exc]

recalculate_schedule(pcalc, ws, sch, os, day, days) ==
    Rebuilt(os, create_schedule(pcalc, ws, sch,
                                SelectSeq(os, LAMBDA o : pending_qty(o) > 0), day, days))

\* an order is updated, its priority computed and the schedule rebuilt: the
\* common end of handle_order_updated and handle_priority_change
UpdateAndRecalculate(pcalc, ws, sch, os, i, order, day, days) ==
    LET level == compute_priority(pcalc, order, day)
        stored == [os EXCEPT ![i] = order]
        ranked == [os EXCEPT ![i] = [order EXCEPT !.calculated_priority = level.value]]
    IN  IF level.exc # "none"
        THEN [orders |-> stored, workers |-> ws, schedule |-> sch,
              out |-> <<>>, exc |-> level.exc]
        ELSE recalculate_schedule(pcalc, ws, sch, ranked, day, days)

\* the planner's state left as it is, with an exception or none
Unchanged(ws, sch, os, e) ==
    [orders |-> os, workers |-> ws, schedule |-> sch, out |-> <<>>, exc |-> e]

\* PlannerAgent.handle_order_updated
handle_order_updated(pcalc, ws, sch, os, event, day, days) ==
    IF ~HasAttr(event, "doc_number") THEN Unchanged(ws, sch, os, "AttributeError")
    ELSE IF OrderIndex(os, event.doc_number) = 0 THEN Unchanged(ws, sch, os, "none")
    ELSE LET i == OrderIndex(os, event.doc_number)
             order == [os[i] EXCEPT !.ordered_qty = event.ordered_qty,
                                    !.consumed_qty = event.consumed_qty,
                                    !.due_date = event.due_date,
                                    !.priority_manual =
                                        IF event.priority_manual # None
                                        THEN event.priority_manual ELSE @]
         IN  UpdateAndRecalculate(pcalc, ws, sch, os, i, order, day, days)

\* PlannerAgent.handle_progress_update
handle_progress_update(pcalc, ws, sch, os, event, day, days) ==
    IF ~HasAttr(event, "doc_number") THEN Unchanged(ws, sch, os, "AttributeError")
    ELSE IF OrderIndex(os, event.doc_number) = 0 THEN Unchanged(ws, sch, os, "none")
    ELSE LET i == OrderIndex(os, event.doc_number)
             order == [os[i] EXCEPT !.consumed_qty = @ + event.qty_done]
             stored == [os EXCEPT ![i] = order]
         IN  IF order.consumed_qty >= order.ordered_qty
             THEN Unchanged(ws, sch, stored, "none")
             ELSE recalculate_schedule(pcalc, ws, sch, stored, day, days)

\* PlannerAgent.handle_priority_change
handle_priority_change(pcalc, ws, sch, os, event, day, days) ==
    IF ~HasAttr(event, "doc_number") THEN Unchanged(ws, sch, os, "AttributeError")
    ELSE IF OrderIndex(os, event.doc_number) = 0 THEN Unchanged(ws, sch, os, "none")
    ELSE LET i == OrderIndex(os, event.doc_number)
             order == [os[i] EXCEPT !.priority_manual = event.new_priority]
         IN  UpdateAndRecalculate(pcalc, ws, sch, os, i, order, day, days)

\* PlannerAgent.start: the branches for ORDER_UPDATED, PROGRESS_UPDATE and
\* PRIORITY_CHANGE
handle_order_change(pcalc, ws, sch, os, event, day, days) ==
    CASE event.type = "order_updated" ->
           handle_order_updated(pcalc, ws, sch, os, event, day, days)
      [] event.type = "progress_update" ->
           handle_progress_update(pcalc, ws, sch, os, event, day, days)
      [] event.type = "priority_change" ->
           handle_priority_change(pcalc, ws, sch, os, event, day, days)

\* ------------------------------------------------------------ worker agent
\* the loop "for day in work_dates" of handle_bid_request, from the d-th date
\* st: [proposed_dates, remaining]
RECURSIVE ProposeDays(_, _, _, _, _)
ProposeDays(st, w, start_date, n, d) ==
    IF d >= n THEN st
    ELSE LET day == start_date + d
             available_hours == get_available_hours(w, day)
             allocated == Min(available_hours, st.remaining)
             st2 == [proposed_dates |-> (day :> allocated) @@ st.proposed_dates,
                     remaining |-> st.remaining - allocated]
         IN  IF available_hours > 0
             THEN IF st2.remaining <= 0 THEN st2
                  ELSE ProposeDays(st2, w, start_date, n, d + 1)
             ELSE ProposeDays(st, w, start_date, n, d + 1)

\* sum(proposed_dates.values())
RECURSIVE SumValues(_)
SumValues(f) ==
    IF DOMAIN f = {} THEN 0
    ELSE LET k == CHOOSE x \in DOMAIN f : TRUE
         IN  f[k] + SumValues([x \in DOMAIN f \ {k} |-> f[x]])

\* a handle_bid_request that answers every request it is handed, twice when
\* the worker is qualified
handle_bid_request_TwoResponses(w, agent, event, day, days) ==
    LET response == NewEvent("bid_response", BidResponseParams,
                             [order_code |-> event.order_code, worker_id |-> w.id,
                              capacity |-> 0, proposed_dates |-> <<>>])
    IN  [agent |-> [agent EXCEPT !.active_bids = @ \cup {event.order_code}],
         out |-> IF w.skills # {} /\ event.order_code \notin w.skills
                 THEN <<response.event>>
                 ELSE <<response.event, response.event>>,
         exc |-> "none"]

\* a handle_bid_request that does not look at the worker's skills
handle_bid_request_IgnoresSkills(w, agent, event, day, days) ==
    LET end_date == Min(DateOf(event.due_date), day + days)
        p == ProposeDays([proposed_dates |-> <<>>, remaining |-> event.work_hours],
                         w, day, (end_date - day) + 1, 0)
        response == NewEvent("bid_response", BidResponseParams,
                             [order_code |-> event.order_code, worker_id |-> w.id,
                              capacity |-> SumValues(p.proposed_dates),
                              proposed_dates |-> p.proposed_dates])
    IN  [agent |-> [agent EXCEPT !.active_bids = @ \cup {event.order_code}],
         out |-> <<response.event>>, exc |-> "none"]

\* a handle_bid_request that proposes days up to the horizon, whatever the
\* due date
handle_bid_request_NoDueDate(w, agent, event, day, days) ==
    LET p == ProposeDays([proposed_dates |-> <<>>, remaining |-> event.work_hours],
                         w, day, days + 1, 0)
        response == NewEvent("bid_response", BidResponseParams,
                             [order_code |-> event.order_code, worker_id |-> w.id,
                              capacity |-> SumValues(p.proposed_dates),
                              proposed_dates |-> p.proposed_dates])
    IN  IF w.skills # {} /\ event.order_code \notin w.skills
        THEN [agent |-> agent, out |-> <<>>, exc |-> "none"]
        ELSE [agent |-> [agent EXCEPT !.active_bids = @ \cup {event.order_code}],
              out |-> <<response.event>>, exc |-> "none"]

\* a handle_bid_request that books the hours it proposes in the agent's
\* allocation list
handle_bid_request_BooksProposal(w, agent, event, day, days) ==
    LET end_date == Min(DateOf(event.due_date), day + days)
        p == ProposeDays([proposed_dates |-> <<>>, remaining |-> event.work_hours],
                         w, day, (end_date - day) + 1, 0)
        response == NewEvent("bid_response", BidResponseParams,
                             [order_code |-> event.order_code, worker_id |-> w.id,
                              capacity |-> SumValues(p.proposed_dates),
                              proposed_dates |-> p.proposed_dates])
    IN  IF w.skills # {} /\ event.order_code \notin w.skills
        THEN [agent |-> agent, out |-> <<>>, exc |-> "none"]
        ELSE [agent |-> [allocations |-> agent.allocations \o
                             [k \in 1..Len(SortedKeys(DOMAIN p.proposed_dates)) |->
                                 Allocation(event.order_code, w.id,
                                     SortedKeys(DOMAIN p.proposed_dates)[k],
                                     p.proposed_dates[SortedKeys(DOMAIN p.proposed_dates)[k]])],
                        active_bids |-> agent.active_bids \cup {event.order_code}],
              out |-> <<response.event>>, exc |-> "none"]

\* WorkerAgent.handle_bid_request: the agent afterwards and the events put
handle_bid_request(w, agent, event, day, days) ==
    LET end_date == Min(DateOf(event.due_date), day + days)
        p == ProposeDays([proposed_dates |-> <<>>, remaining |-> event.work_hours],
                         w, day, (end_date - day) + 1, 0)
        response == NewEvent("bid_response", BidResponseParams,
                             [order_code |-> event.order_code, worker_id |-> w.id,
                              capacity |-> SumValues(p.proposed_dates),
                              proposed_dates |-> p.proposed_dates])
    IN  IF w.skills # {} /\ event.order_code \notin w.skills
        THEN [agent |-> agent, out |-> <<>>, exc |-> "none"]
        ELSE [agent |-> [agent EXCEPT !.active_bids = @ \cup {event.order_code}],
              out |-> IF response.exc = "none" THEN <<response.event>> ELSE <<>>,
              exc |-> response.exc]

\* the loop "for day, hours in allocations.items()" of handle_allocation_award
\* st: [worker, allocations]
RECURSIVE CommitDays(_, _, _, _)
CommitDays(st, order_code, allocations, days) ==
    IF days = <<>> THEN st
    ELSE LET day == Head(days)
             hours == allocations[day]
             available == get_available_hours(st.worker, day)
         IN  CommitDays(
                 [worker |-> [st.worker EXCEPT !.availability =
                                 (day :> (available - hours)) @@ st.worker.availability],
                  allocations |-> Append(st.allocations,
                                 Allocation(order_code, st.worker.id, day, hours))],
                 order_code, allocations, Tail(days))

\* a handle_allocation_award that commits an award whoever it is addressed to
handle_allocation_award_AnyWorker(w, agent, event) ==
    LET st == CommitDays([worker |-> w, allocations |-> agent.allocations],
                         event.order_code, event.allocations,
                         SortedKeys(DOMAIN event.allocations))
    IN  [worker |-> st.worker,
         agent |-> [allocations |-> st.allocations,
                    active_bids |-> agent.active_bids \ {event.order_code}]]

\* WorkerAgent.handle_allocation_award: the worker and the agent afterwards
handle_allocation_award(w, agent, event) ==
    LET st == CommitDays([worker |-> w, allocations |-> agent.allocations],
                         event.order_code, event.allocations,
                         SortedKeys(DOMAIN event.allocations))
    IN  IF event.worker_id # w.id
        THEN [worker |-> w, agent |-> agent]
        ELSE [worker |-> st.worker,
              agent |-> [allocations |-> st.allocations,
                         active_bids |-> agent.active_bids \ {event.order_code}]]

\* the allocations of the agent's list that report_progress compares equal:
\* same order code and same date
Matching(allocations, order_code, allocation_date) ==
    {i \in 1..Len(allocations) :
        /\ allocations[i].order_code = order_code
        /\ allocations[i].allocation_date = allocation_date}

\* a report_progress that marks every matching allocation
report_progress_MarksAll(w, agent, order_code, qty_done, allocation_date) ==
    LET update == NewEvent("progress_update", ProgressUpdateParams,
                           [order_code |-> order_code, worker_id |-> w.id,
                            qty_done |-> qty_done, allocation_date |-> allocation_date])
        hits == Matching(agent.allocations, order_code, allocation_date)
    IN  [agent |-> [agent EXCEPT !.allocations =
                       [i \in 1..Len(@) |->
                           IF i \in hits THEN [@[i] EXCEPT !.completed = TRUE] ELSE @[i]]],
         out |-> <<update.event>>, exc |-> update.exc]

\* WorkerAgent.report_progress: the agent afterwards and the event put
report_progress(w, agent, order_code, qty_done, allocation_date) ==
    LET update == NewEvent("progress_update", ProgressUpdateParams,
                           [order_code |-> order_code, worker_id |-> w.id,
                            qty_done |-> qty_done, allocation_date |-> allocation_date])
        hits == Matching(agent.allocations, order_code, allocation_date)
        first == CHOOSE i \in hits : \A j \in hits : i <= j
    IN  IF update.exc # "none"
        THEN [agent |-> agent, out |-> <<>>, exc |-> update.exc]
        ELSE [agent |-> IF hits = {} THEN agent
                        ELSE [agent EXCEPT !.allocations[first].completed = TRUE],
              out |-> <<update.event>>, exc |-> "none"]

\* ------------------------------------------------------------ the inputs
Codes == {"A", "B"}

SkillSets == {{}, {"A"}}

\* PriorityCalculator([2, 5, 10], size_threshold=8), as the tests build it
TestCalc == [urgency_thresholds |-> <<2, 5, 10>>, size_threshold |-> 8]

\* a calculator whose thresholds lie within the small dates and hours
SmallCalc == [urgency_thresholds |-> <<0, 1, 2>>, size_threshold |-> 1]

WorkerPools ==
    {[i \in 1..NumWorkers |-> Worker(i, h[i], s[i])] :
        h \in [1..NumWorkers -> 1..MaxHours], s \in [1..NumWorkers -> SkillSets]}

EarlyDue == TicksPerDay

LateDue == MaxDue * TicksPerDay + 1

\* consumed quantity, cycle time, due date and manual priority of the orders
\* given to the scheduler
OrderVariants ==
    {<<0, 1, EarlyDue, None>>, <<1, MaxCycle, LateDue, None>>,
     <<0, MaxCycle, LateDue, 4>>, <<0, 0, LateDue, None>>, <<0, 1, EarlyDue, -1>>}

SchedOrders ==
    {Order(c, 0, q, v[1], v[2], v[3], v[4]) :
        c \in Codes, q \in 0..MaxQty, v \in OrderVariants}

\* lists of n orders with the distinct document numbers 1..n
OrderLists(pool, n) ==
    {[i \in 1..n |-> [os[i] EXCEPT !.doc_number = i]] : os \in [1..n -> pool]}

\* ------------------------------------------------- the scheduler, called
SchedInit ==
    /\ calc = SmallCalc
    /\ workers \in WorkerPools
    /\ orders \in UNION {OrderLists(SchedOrders, n) : n \in 1..MaxOrders}
    /\ schedule = <<>>
    /\ today = 1
    /\ horizon \in 1..MaxDays
    /\ exc = "none"
    /\ last = "init"
    /\ result = None
    /\ calls = 0
    /\ queue = <<>>
    /\ active_bids = <<>>
    /\ agents = <<>>
    /\ sent = <<>>
    /\ delivered = <<>>

\* scheduler.create_schedule(orders, today, horizon)
CreateSchedule ==
    \E r \in {create_schedule(calc, workers, schedule, orders, today, horizon)} :
        /\ calls < MaxCalls
        /\ calls' = calls + 1
        /\ orders' = r.orders
        /\ workers' = r.workers
        /\ schedule' = r.schedule
        /\ exc' = r.exc
        /\ last' = "create_schedule"
        /\ UNCHANGED <<calc, today, horizon, result, agentVars>>

SchedNext == CreateSchedule

SchedSpec == SchedInit /\ [][SchedNext]_vars

\* ---------------------------------------------- claims on the scheduler
\* create_schedule has returned a schedule
Returned == last = "create_schedule" /\ exc = "none"

\* the hours of the allocations of a worker on a date
WorkerDayHours(sch, worker_id, day) ==
    TotalHours(SelectSeq(sch, LAMBDA a : a.worker_id = worker_id /\ a.allocation_date = day))

ScheduleDates(sch) == {sch[i].allocation_date : i \in 1..Len(sch)}

\* C1: after create_schedule, for every worker and every date the hours of
\* the schedule's allocations for that worker on that date sum to at most
\* the worker's hours_per_day.
C1_WorkerDayWithinCapacity ==
    Returned =>
        \A i \in 1..Len(workers) : \A day \in ScheduleDates(schedule) :
            WorkerDayHours(schedule, workers[i].id, day) <= workers[i].hours_per_day

\* a worker's day is filled to its capacity by the allocations of two orders
C1_Witness ==
    /\ Returned
    /\ \E i \in 1..Len(workers) : \E day \in ScheduleDates(schedule) :
          /\ WorkerDayHours(schedule, workers[i].id, day) = workers[i].hours_per_day
          /\ Len(SelectSeq(schedule, LAMBDA a :
                  a.worker_id = workers[i].id /\ a.allocation_date = day)) >= 2

\* C2: after create_schedule, for every order of the input the hours of the
\* allocations that get_order_schedule returns for the order sum to at most
\* the order's remaining_work_hours (nothing for an order with no work left).
C2_OrderLookupWithinRemaining ==
    Returned =>
        \A i \in 1..Len(orders) :
            TotalHours(get_order_schedule(schedule, orders[i].code))
                <= Max(remaining_work_hours(orders[i]), 0)

\* the capacity, over the horizon, of the workers eligible for an order
RECURSIVE EligibleCapacity(_, _, _)
EligibleCapacity(ws, order, days) ==
    IF ws = <<>> THEN 0
    ELSE (IF Head(ws).skills = {} \/ order.code \in Head(ws).skills
          THEN Head(ws).hours_per_day * days ELSE 0)
         + EligibleCapacity(Tail(ws), order, days)

SingleOrderFits ==
    /\ Len(orders) = 1
    /\ remaining_work_hours(orders[1]) > 0
    /\ EligibleCapacity(workers, orders[1], horizon) >= remaining_work_hours(orders[1])

\* C3: create_schedule of a single order with positive remaining hours that
\* the eligible workers' capacity over the horizon covers returns a
\* non-empty schedule whose hours sum to exactly the remaining hours, every
\* allocation being on or after the start date.
C3_SingleOrderFullyAllocated ==
    (Returned /\ SingleOrderFits) =>
        /\ schedule # <<>>
        /\ TotalHours(schedule) = remaining_work_hours(orders[1])
        /\ \A i \in 1..Len(schedule) : schedule[i].allocation_date >= today

\* a single order that needs more than one worker-day and gets all its hours
C3_Witness ==
    /\ Returned
    /\ SingleOrderFits
    /\ Len(schedule) >= 2
    /\ \E i \in 1..Len(schedule) : schedule[i].allocation_date > today

\* ------------------------------------------- the priority calculator, called
PriorityOrders ==
    {Order("A", 1, q, k, t, d, m) :
        q \in 0..MaxQty \cup {10}, k \in 0..1, t \in 0..MaxCycle,
        d \in 0..(MaxDaysLeft * TicksPerDay + 1), m \in {None} \cup (-2..7)}

PriorityInit ==
    /\ calc \in {TestCalc, SmallCalc}
    /\ workers = <<>>
    /\ orders \in OrderLists(PriorityOrders, 1)
    /\ schedule = <<>>
    /\ today \in 0..1
    /\ horizon = 0
    /\ exc = "none"
    /\ last = "init"
    /\ result = None
    /\ calls = 0
    /\ queue = <<>>
    /\ active_bids = <<>>
    /\ agents = <<>>
    /\ sent = <<>>
    /\ delivered = <<>>

\* a compute_priority call that stores the level in the order, as
\* prioritize_orders does
ComputePriority_StoresLevel ==
    LET r == compute_priority(calc, orders[1], today)
    IN  /\ calls < MaxCalls
        /\ calls' = calls + 1
        /\ exc' = r.exc
        /\ result' = IF r.exc = "none" THEN r.value ELSE None
        /\ last' = "compute_priority"
        /\ orders' = [orders EXCEPT ![1].calculated_priority =
                          IF r.exc = "none" THEN r.value ELSE @]
        /\ UNCHANGED <<calc, workers, schedule, today, horizon, agentVars>>

\* priority_calculator.compute_priority(orders[1], today)
ComputePriority ==
    LET r == compute_priority(calc, orders[1], today)
    IN  /\ calls < MaxCalls
        /\ calls' = calls + 1
        /\ exc' = r.exc
        /\ result' = IF r.exc = "none" THEN r.value ELSE None
        /\ last' = "compute_priority"
        /\ UNCHANGED <<calc, workers, orders, schedule, today, horizon, agentVars>>

PriorityNext == ComputePriority

PrioritySpec == PriorityInit /\ [][PriorityNext]_vars

\* ------------------------------------- claims on the priority calculator
Computed == last = "compute_priority"

DaysLeft == DateOf(orders[1].due_date) - today

PendingHours == (orders[1].ordered_qty - orders[1].consumed_qty) * orders[1].cycle_time

Urgency ==
    CASE DaysLeft <= calc.urgency_thresholds[1] -> 3
      [] DaysLeft > calc.urgency_thresholds[1]
           /\ DaysLeft <= calc.urgency_thresholds[2] -> 2
      [] DaysLeft > calc.urgency_thresholds[2]
           /\ DaysLeft <= calc.urgency_thresholds[3] -> 1
      [] OTHER -> 0

SizeBit == IF PendingHours > calc.size_threshold THEN 1 ELSE 0

\* C4: without a manual override compute_priority returns
\* min(urgency + size + 1, 5); the level is between 1 and 5, and it is 5
\* whenever days_left <= t_high and the pending hours exceed the size
\* threshold.
C4_ComputedLevel ==
    (Computed /\ orders[1].priority_manual = None) =>
        /\ exc = "none"
        /\ result = Min(Urgency + SizeBit + 1, 5)
        /\ result \in 1..5
        /\ (DaysLeft <= calc.urgency_thresholds[1] /\ PendingHours > calc.size_threshold)
               => result = CRITICAL

\* thresholds [2, 5, 10], size threshold 8, 10 pending hours, due in 1 day
C4_Witness ==
    /\ Computed
    /\ orders[1].priority_manual = None
    /\ calc = TestCalc
    /\ PendingHours = 10
    /\ DaysLeft = 1
    /\ result = CRITICAL

\* C5 as stated: with a manual override compute_priority returns
\* min(override, 5), a negative override passing through as the level, and
\* raises no error.
C5_Original ==
    (Computed /\ orders[1].priority_manual # None) =>
        /\ exc = "none"
        /\ result = Min(orders[1].priority_manual, 5)

\* C5 amended: with a manual override of 0 or more compute_priority returns
\* min(override, 5) whatever the due date and the size; a negative override
\* is not clamped, is no PriorityLevel, and makes the call raise ValueError.
C5_ManualOverride ==
    (Computed /\ orders[1].priority_manual # None) =>
        IF orders[1].priority_manual >= 0
        THEN exc = "none" /\ result = Min(orders[1].priority_manual, 5)
        ELSE exc = "ValueError" /\ result = None

\* a negative override has raised
C5_Witness ==
    /\ Computed
    /\ orders[1].priority_manual = -1
    /\ exc = "ValueError"

AgentWorkers ==
    [i \in 1..NumWorkers |-> Worker(i, MaxHours, IF i = 1 THEN {} ELSE {"A"})]

\* the events that a holder of the queue builds with the constructors of
\* domain/events.py (the attributes the agents never read are left out)
OrderCreatedEvents ==
    {NewEvent("order_created", OrderCreatedParams,
              [order_code |-> c, ordered_qty |-> q, consumed_qty |-> 0, cycle_time |-> 1,
               doc_number |-> d, due_date |-> LateDue, priority_manual |-> None]).event :
        c \in {"A"}, d \in 1..2, q \in 0..1}

BidRequestEvents ==
    {NewEvent("bid_request", BidRequestParams,
              [order_code |-> c, work_hours |-> h, due_date |-> LateDue]).event :
        c \in Codes, h \in {MaxHours + 1}}

BidResponseEvents ==
    {NewEvent("bid_response", BidResponseParams,
              [order_code |-> "A", worker_id |-> 1, capacity |-> 1,
               proposed_dates |-> (1 :> 1)]).event}

AllocationAwardEvents ==
    {NewEvent("allocation_award", AllocationAwardParams,
              [order_code |-> "A", worker_id |-> w, allocations |-> (1 :> 1)]).event :
        w \in 1..NumWorkers}

OtherEvents ==
    {NewEvent("order_updated", OrderUpdatedParams,
              [order_code |-> "A", ordered_qty |-> 1, consumed_qty |-> 0,
               due_date |-> LateDue, priority_manual |-> None]).event,
     NewEvent("progress_update", ProgressUpdateParams,
              [order_code |-> "A", worker_id |-> 1, qty_done |-> 1,
               allocation_date |-> 1]).event,
     NewEvent("priority_change", PriorityChangeParams,
              [order_code |-> "A", new_priority |-> 4]).event,
     ScheduleUpdated}

ExternalEvents ==
    OrderCreatedEvents \cup BidRequestEvents \cup BidResponseEvents
        \cup AllocationAwardEvents \cup OtherEvents

Planner == 0

Init ==
    /\ calc = TestCalc
    /\ workers = AgentWorkers
    /\ orders = <<>>
    /\ schedule = <<>>
    /\ today = 1
    /\ horizon = MaxDays
    /\ exc = "none"
    /\ last = "init"
    /\ result = None
    /\ calls = 0
    /\ queue = <<>>
    /\ active_bids = <<>>
    /\ agents = [i \in 1..NumWorkers |-> [allocations |-> <<>>, active_bids |-> {}]]
    /\ sent = <<>>
    /\ delivered = <<>>

\* the agents run while no task has ended with an exception
Running == exc = "none"

\* the item the next get() returns
NextItem == QueueGet(queue).item

\* a holder of the queue puts an event
Put(e) ==
    /\ Running
    /\ calls < MaxPuts
    /\ calls' = calls + 1
    /\ queue' = QueuePut(queue, <<e>>, Len(sent) + 1, 0)
    /\ sent' = QueuePut(sent, <<e>>, Len(sent) + 1, 0)
    /\ last' = "put"
    /\ UNCHANGED <<calc, workers, orders, schedule, today, horizon, exc, result,
                   active_bids, agents, delivered>>

\* an agent's loop takes the next item and its handler puts the events out
Take(agent, out, e) ==
    /\ queue' = QueuePut(QueueGet(queue).rest, out, Len(sent) + 1, NextItem.id)
    /\ sent' = QueuePut(sent, out, Len(sent) + 1, NextItem.id)
    /\ delivered' = Append(delivered, [id |-> NextItem.id, agent |-> agent])
    /\ exc' = e

Ready(types) == Running /\ queue # <<>> /\ NextItem.ev.type \in types

\* PlannerAgent.start: ORDER_CREATED
PlannerOrderCreated ==
    /\ Ready({"order_created"})
    /\ \E r \in {handle_order_created(orders, active_bids, NextItem.ev)} :
           /\ orders' = r.orders
           /\ active_bids' = r.active_bids
           /\ Take(Planner, r.out, r.exc)
    /\ last' = "handle_order_created"
    /\ UNCHANGED <<calc, workers, schedule, today, horizon, result, calls, agents>>

\* PlannerAgent.start: BID_RESPONSE
PlannerBidResponse ==
    /\ Ready({"bid_response"})
    /\ \E r \in {handle_bid_response(orders, active_bids, workers, NextItem.ev)} :
           /\ active_bids' = r.active_bids
           /\ Take(Planner, r.out, r.exc)
    /\ last' = "handle_bid_response"
    /\ UNCHANGED <<calc, workers, orders, schedule, today, horizon, result, calls, agents>>

\* PlannerAgent.start: ORDER_UPDATED, PROGRESS_UPDATE, PRIORITY_CHANGE
PlannerOrderChange ==
    /\ Ready({"order_updated", "progress_update", "priority_change"})
    /\ \E r \in {handle_order_change(calc, workers, schedule, orders, NextItem.ev,
                                       today, horizon)} :
           /\ orders' = r.orders
           /\ workers' = r.workers
           /\ schedule' = r.schedule
           /\ Take(Planner, r.out, r.exc)
    /\ last' = "handle_order_change"
    /\ UNCHANGED <<calc, today, horizon, result, calls, active_bids, agents>>

\* PlannerAgent.start: an event of a type the loop has no branch for
PlannerDiscard ==
    /\ Ready({"bid_request", "allocation_award", "schedule_updated"})
    /\ Take(Planner, <<>>, "none")
    /\ last' = "planner_discard"
    /\ UNCHANGED <<calc, workers, orders, schedule, today, horizon, result, calls,
                   active_bids, agents>>

\* WorkerAgent.start: BID_REQUEST
WorkerBidRequest(w) ==
    /\ Ready({"bid_request"})
    /\ \E r \in {handle_bid_request(workers[w], agents[w], NextItem.ev, today, horizon)} :
           /\ agents' = [agents EXCEPT ![w] = r.agent]
           /\ Take(w, r.out, r.exc)
    /\ last' = "handle_bid_request"
    /\ UNCHANGED <<calc, workers, orders, schedule, today, horizon, result, calls,
                   active_bids>>

\* WorkerAgent.start: ALLOCATION_AWARD
WorkerAllocationAward(w) ==
    /\ Ready({"allocation_award"})
    /\ \E r \in {handle_allocation_award(workers[w], agents[w], NextItem.ev)} :
           /\ workers' = [workers EXCEPT ![w] = r.worker]
           /\ agents' = [agents EXCEPT ![w] = r.agent]
    /\ Take(w, <<>>, "none")
    /\ last' = "handle_allocation_award"
    /\ UNCHANGED <<calc, orders, schedule, today, horizon, result, calls, active_bids>>

\* WorkerAgent.start: an event of a type the loop has no branch for
WorkerDiscard(w) ==
    /\ Ready({"order_created", "order_updated", "bid_response", "progress_update",
              "priority_change", "schedule_updated"})
    /\ Take(w, <<>>, "none")
    /\ last' = "worker_discard"
    /\ UNCHANGED <<calc, workers, orders, schedule, today, horizon, result, calls,
                   active_bids, agents>>

Next ==
    \/ \E e \in ExternalEvents : Put(e)
    \/ PlannerOrderCreated
    \/ PlannerBidResponse
    \/ PlannerOrderChange
    \/ PlannerDiscard
    \/ \E w \in 1..NumWorkers : WorkerBidRequest(w)
    \/ \E w \in 1..NumWorkers : WorkerAllocationAward(w)
    \/ \E w \in 1..NumWorkers : WorkerDiscard(w)

Spec == Init /\ [][Next]_vars

\* ------------------------------------------------ claims on the agent run
\* the step in which the agent a takes an event of the given type
Takes(a, type) ==
    /\ Ready({type})
    /\ Len(delivered') = Len(delivered) + 1
    /\ delivered'[Len(delivered')].agent = a

\* the items put so far that hold an event of the given type
SentOf(type) == {i \in 1..Len(sent) : sent[i].ev.type = type}

\* the deliveries of the item with serial number id
DeliveriesOf(id) == {k \in 1..Len(delivered) : delivered[k].id = id}

\* C7: when the coordinator takes a BidResponse it collects it without an
\* error, and a round it closes in that step is one whose collected responses
\* thereby number as many as the workers, never fewer.
C7_RoundClosesAtWorkerCount ==
    [][Takes(Planner, "bid_response") =>
          /\ exc' = "none"
          /\ \A d \in DOMAIN active_bids :
                 d \notin DOMAIN active_bids' => Len(active_bids[d]) + 1 = Len(workers)]_vars

C10_FifoSingleDelivery ==
    /\ \A i \in 1..Len(sent) : sent[i].id = i
    /\ \A k \in 1..Len(delivered) : delivered[k].id = k
    /\ queue = SubSeq(sent, Len(delivered) + 1, Len(sent))

\* three items were put, two agents took the first two in turn and the third
\* still waits
C10_Witness ==
    /\ Len(sent) >= 3
    /\ Len(delivered) = 2
    /\ delivered[1].agent # delivered[2].agent
    /\ Len(queue) = 1

\* ----------------------------------------- claims on the coordinator's handlers
\* the events put so far, of the given type, by the handling of the item id
PutBy(id, type) == {j \in SentOf(type) : sent[j].cause = id}

\* the hours an OrderCreated event's order has left
EventHours(ev) == (ev.ordered_qty - ev.consumed_qty) * ev.cycle_time

\* C11: when the coordinator has handled an OrderCreated event (of an order
\* with work left), the order is in its order table under its document
\* number, an empty set of collected responses exists for it, and exactly one
\* BidRequest for the order, with its code, document number, hours and due
\* date, has been put on the channel.
C11_OrderCreatedOpensRound ==
    [][(Takes(Planner, "order_created") /\ EventHours(NextItem.ev) > 0) =>
          /\ exc' = "none"
          /\ OrderIndex(orders', NextItem.ev.doc_number) # 0
          /\ NextItem.ev.doc_number \in DOMAIN active_bids'
          /\ active_bids'[NextItem.ev.doc_number] = <<>>
          /\ \E j \in 1..Len(sent') :
                /\ sent'[j].cause = NextItem.id
                /\ sent'[j].ev.type = "bid_request"
                /\ sent'[j].ev.order_code = NextItem.ev.order_code
                /\ HasAttr(sent'[j].ev, "doc_number")
                /\ sent'[j].ev.work_hours = EventHours(NextItem.ev)
                /\ sent'[j].ev.due_date = NextItem.ev.due_date
          /\ Len(sent') = Len(sent) + 1]_vars

\* C12: a BidResponse that a worker agent put in answer to a BidRequest names
\* the request's order by its document number, the key under which the
\* coordinator holds the open round.
C12_ResponseNamesRequestOrder ==
    \A i \in SentOf("bid_request") : \A j \in PutBy(sent[i].id, "bid_response") :
        /\ HasAttr(sent[i].ev, "doc_number")
        /\ HasAttr(sent[j].ev, "doc_number")
        /\ sent[j].ev.doc_number = sent[i].ev.doc_number

\* --------------------------------------------- the coordinator, processing bids
\* the (date -> hours) maps a worker agent can propose over the horizon
Proposals ==
    UNION {[days -> 1..MaxHours] : days \in SUBSET (1..MaxDays)}

\* the BidResponses of a round, as handle_bid_request builds them
RoundResponses ==
    {NewEvent("bid_response", BidResponseParams,
              [order_code |-> "A", worker_id |-> w, capacity |-> SumValues(p),
               proposed_dates |-> p]).event :
        w \in 1..NumWorkers, p \in Proposals}

\* the response lists of a round: up to one response per worker
RoundLists ==
    UNION {[1..n -> RoundResponses] : n \in 0..NumWorkers}

\* a coordinator that holds one order and the round of responses collected
\* for it
BidsInit ==
    /\ calc = TestCalc
    /\ workers = AgentWorkers
    /\ orders \in {<<Order("A", 1, q, 0, c, LateDue, None)>> :
                      q \in 0..MaxQty, c \in 1..MaxCycle}
    /\ active_bids \in {(1 :> bids) : bids \in RoundLists}
    /\ schedule = <<>>
    /\ today = 1
    /\ horizon = MaxDays
    /\ exc = "none"
    /\ last = "init"
    /\ result = None
    /\ calls = 0
    /\ queue = <<>>
    /\ agents = [i \in 1..NumWorkers |-> [allocations |-> <<>>, active_bids |-> {}]]
    /\ sent = <<>>
    /\ delivered = <<>>

\* a process_bids that also records the hours it gives in the coordinator's
\* schedule
ProcessBids_RecordsAwards ==
    /\ last = "init"
    /\ \E r \in {process_bids(orders, active_bids, orders[1].doc_number)} :
           /\ active_bids' = r.active_bids
           /\ queue' = QueuePut(queue, r.out, Len(sent) + 1, 0)
           /\ sent' = QueuePut(sent, r.out, Len(sent) + 1, 0)
           /\ exc' = r.exc
    /\ \E st \in {AwardBids([allocations |-> <<>>, served |-> <<>>,
                              remaining |-> remaining_work_hours(orders[1])],
                             active_bids[1])} :
           schedule' = schedule \o
               [k \in 1..Len(st.served) |->
                   Allocation(orders[1].code, st.served[k], today,
                              SumValues(st.allocations[st.served[k]]))]
    /\ last' = "process_bids"
    /\ calls' = calls + 1
    /\ UNCHANGED <<calc, workers, orders, today, horizon, result, agents, delivered>>

\* await self.process_bids(doc_number), for the round of the order held
ProcessBids ==
    /\ last = "init"
    /\ \E r \in {process_bids(orders, active_bids, orders[1].doc_number)} :
           /\ active_bids' = r.active_bids
           /\ queue' = QueuePut(queue, r.out, Len(sent) + 1, 0)
           /\ sent' = QueuePut(sent, r.out, Len(sent) + 1, 0)
           /\ exc' = r.exc
    /\ last' = "process_bids"
    /\ calls' = calls + 1
    /\ UNCHANGED <<calc, workers, orders, schedule, today, horizon, result, agents,
                   delivered>>

BidsNext == ProcessBids

BidsSpec == BidsInit /\ [][BidsNext]_vars

\* the hours of the AllocationAwards among the items q
RECURSIVE AwardedHours(_)
AwardedHours(q) ==
    IF q = <<>> THEN 0
    ELSE (IF Head(q).ev.type = "allocation_award"
          THEN SumValues(Head(q).ev.allocations) ELSE 0) + AwardedHours(Tail(q))

\* the round has responses that propose hours, for an order with work left
RoundHasOffers ==
    /\ remaining_work_hours(orders[1]) > 0
    /\ \E k \in 1..Len(active_bids[1]) : active_bids[1][k].capacity > 0

NamesKnownOrder(ev) ==
    \E i \in 1..Len(orders) :
        \/ orders[i].code = ev.order_code
        \/ (HasAttr(ev, "doc_number") /\ orders[i].doc_number = ev.doc_number)

\* C14: the coordinator's handling of an OrderUpdated, PriorityChange or
\* ProgressUpdate for an order it knows ends without an error, leaves as its
\* schedule the rebuild over the orders with positive pending quantity, and
\* puts exactly one ScheduleUpdated on the channel.
C14_OrderChangeRebuilds ==
    [][(/\ \E t \in {"order_updated", "priority_change", "progress_update"} :
              Takes(Planner, t)
        /\ NamesKnownOrder(NextItem.ev)) =>
          /\ exc' = "none"
          /\ schedule' = create_schedule(calc, workers, schedule,
                             SelectSeq(orders', LAMBDA o : pending_qty(o) > 0),
                             today, horizon).schedule
          /\ Len(sent') = Len(sent) + 1
          /\ sent'[Len(sent')].ev.type = "schedule_updated"
          /\ sent'[Len(sent')].cause = NextItem.id]_vars

\* the document numbers of the order table
DocNumbers(os) == {os[i].doc_number : i \in 1..Len(os)}

\* the ProgressUpdate brings the consumed quantity of an order the
\* coordinator holds to its ordered quantity or beyond
CompletesOrder(ev) ==
    /\ ev.type = "progress_update"
    /\ \E i \in 1..Len(orders) :
          /\ orders[i].code = ev.order_code
          /\ orders[i].consumed_qty + ev.qty_done >= orders[i].ordered_qty

\* C15: a ProgressUpdate that makes an order's consumed quantity reach or
\* exceed its ordered quantity is handled without an error: the quantity is
\* added to the order, which is then none of the orders with positive
\* pending quantity that a rebuild schedules, and every order record stays in
\* the order table.
C15_CompletedOrderKept ==
    [][(Takes(Planner, "progress_update") /\ CompletesOrder(NextItem.ev)) =>
          /\ exc' = "none"
          /\ DocNumbers(orders') = DocNumbers(orders)
          /\ \E i \in 1..Len(orders) :
                /\ orders[i].code = NextItem.ev.order_code
                /\ orders'[i].consumed_qty = orders[i].consumed_qty + NextItem.ev.qty_done
                /\ pending_qty(orders'[i]) <= 0
                /\ SelectSeq(orders', LAMBDA o : pending_qty(o) > 0)
                       = SelectSeq(orders, LAMBDA o : pending_qty(o) > 0 /\ o # orders[i])]_vars

\* C16: an OrderUpdated, PriorityChange, ProgressUpdate or BidResponse that
\* names no order the coordinator holds (or, for a BidResponse, an order with
\* no open round) is ignored without an error: the order table, the open
\* rounds and the schedule stay as they are, nothing is put on the channel,
\* and the coordinator goes on.
C16_UnknownOrderIgnored ==
    [][(/\ \E t \in {"order_updated", "priority_change", "progress_update", "bid_response"} :
              Takes(Planner, t)
        /\ (~NamesKnownOrder(NextItem.ev)
               \/ (NextItem.ev.type = "bid_response" /\ DOMAIN active_bids = {}))) =>
          /\ exc' = "none"
          /\ orders' = orders
          /\ active_bids' = active_bids
          /\ schedule' = schedule
          /\ sent' = sent]_vars

\* ------------------------------------------------------ the worker agents, run
\* a due date before today
PastDue == 0

\* the BidRequests put to the worker agents: little or much work, due today,
\* after the horizon, or in the past
WorkerBidRequests ==
    {NewEvent("bid_request", BidRequestParams,
              [order_code |-> c, work_hours |-> hd[1], due_date |-> hd[2]]).event :
        c \in Codes,
        hd \in {<<1, LateDue>>, <<MaxHours + 1, LateDue>>,
                <<MaxHours + 1, EarlyDue>>, <<1, PastDue>>}}

\* the AllocationAwards put to the worker agents: for one day or two
WorkerAwards ==
    {NewEvent("allocation_award", AllocationAwardParams,
              [order_code |-> "A", worker_id |-> w, allocations |-> a]).event :
        w \in 1..NumWorkers, a \in {(1 :> 1), (1 :> 1) @@ (2 :> MaxHours)}}

WorkerEvents == WorkerBidRequests \cup WorkerAwards

\* the worker agents of run_agents, on a queue of their own
WorkerInit ==
    /\ calc = TestCalc
    /\ workers = AgentWorkers
    /\ orders = <<>>
    /\ schedule = <<>>
    /\ today = 1
    /\ horizon \in 1..MaxDays
    /\ exc = "none"
    /\ last = "init"
    /\ result = None
    /\ calls = 0
    /\ queue = <<>>
    /\ active_bids = <<>>
    /\ agents = [i \in 1..NumWorkers |-> [allocations |-> <<>>, active_bids |-> {}]]
    /\ sent = <<>>
    /\ delivered = <<>>

\* the calls of report_progress: worker, order code, quantity, date
ReportCalls == (1..NumWorkers) \X {"A"} \X {1} \X (1..MaxDays)

\* await agent.report_progress(order_code, qty_done, allocation_date), for
\* the agent of worker w
ReportProgress(w, order_code, qty_done, allocation_date) ==
    /\ Running
    /\ calls < MaxPuts
    /\ \E r \in {report_progress(workers[w], agents[w], order_code, qty_done,
                                 allocation_date)} :
           /\ agents' = [agents EXCEPT ![w] = r.agent]
           /\ queue' = QueuePut(queue, r.out, Len(sent) + 1, 0)
           /\ sent' = QueuePut(sent, r.out, Len(sent) + 1, 0)
           /\ exc' = r.exc
    /\ calls' = calls + 1
    /\ last' = "report_progress"
    /\ UNCHANGED <<calc, workers, orders, schedule, today, horizon, result,
                   active_bids, delivered>>

WorkerNext ==
    \/ \E e \in WorkerEvents : Put(e)
    \/ \E w \in 1..NumWorkers : WorkerBidRequest(w)
    \/ \E w \in 1..NumWorkers : WorkerAllocationAward(w)
    \/ \E w \in 1..NumWorkers : WorkerDiscard(w)
    \/ \E c \in ReportCalls : ReportProgress(c[1], c[2], c[3], c[4])

WorkerSpec == WorkerInit /\ [][WorkerNext]_vars

\* ------------------------------------------------ claims on the worker agents
\* the worker is not qualified for the order of the BidRequest
Unqualified(w, ev) == workers[w].skills # {} /\ ev.order_code \notin workers[w].skills

\* C17: a worker agent that handles a BidRequest puts no BidResponse and
\* changes nothing of its state when its skill set is non-empty and lacks the
\* order's code; otherwise it puts exactly one BidResponse, its own, for that
\* order.
C17_SkillGate ==
    [][\A w \in 1..NumWorkers :
          Takes(w, "bid_request") =>
              IF Unqualified(w, NextItem.ev)
              THEN agents' = agents /\ workers' = workers /\ sent' = sent
              ELSE /\ Len(sent') = Len(sent) + 1
                   /\ sent'[Len(sent')].cause = NextItem.id
                   /\ sent'[Len(sent')].ev.type = "bid_response"
                   /\ sent'[Len(sent')].ev.worker_id = workers[w].id
                   /\ sent'[Len(sent')].ev.order_code = NextItem.ev.order_code]_vars

\* an unqualified worker has taken one BidRequest and left it unanswered, a
\* qualified one has taken another and answered it
C17_Witness ==
    \E i, i2 \in SentOf("bid_request") :
        /\ \E k \in DeliveriesOf(sent[i].id) :
              /\ delivered[k].agent \in 1..NumWorkers
              /\ Unqualified(delivered[k].agent, sent[i].ev)
        /\ PutBy(sent[i].id, "bid_response") = {}
        /\ \E k \in DeliveriesOf(sent[i2].id) :
              /\ delivered[k].agent \in 1..NumWorkers
              /\ ~Unqualified(delivered[k].agent, sent[i2].ev)
        /\ Cardinality(PutBy(sent[i2].id, "bid_response")) = 1

\* the last date of the window a BidRequest is answered for
WindowEnd(ev) == Min(DateOf(ev.due_date), today + horizon)

\* the free hours of worker w over the dates of the window that have any
RECURSIVE WindowFreeHours(_, _, _)
WindowFreeHours(w, from, to) ==
    IF from > to THEN 0
    ELSE Max(get_available_hours(workers[w], from), 0) + WindowFreeHours(w, from + 1, to)

\* C18: in the BidResponse of a qualified worker to a request for a positive
\* number of hours, every proposed date lies between today and
\* min(due date, today + horizon), the hours proposed for a date are positive
\* and at most the worker's free hours on that date, the capacity is the sum
\* of the proposed hours, and that sum is at most the hours requested, and
\* equal to them whenever the free hours of the window suffice.
C18_ProposalWithinWindow ==
    [][\A w \in 1..NumWorkers :
          (Takes(w, "bid_request") /\ ~Unqualified(w, NextItem.ev)
              /\ NextItem.ev.work_hours > 0) =>
              \E j \in {Len(sent')} :
                  /\ sent'[j].ev.type = "bid_response"
                  /\ \A day \in DOMAIN sent'[j].ev.proposed_dates :
                        /\ today <= day
                        /\ day <= WindowEnd(NextItem.ev)
                        /\ sent'[j].ev.proposed_dates[day] > 0
                        /\ sent'[j].ev.proposed_dates[day]
                               <= get_available_hours(workers[w], day)
                  /\ sent'[j].ev.capacity = SumValues(sent'[j].ev.proposed_dates)
                  /\ sent'[j].ev.capacity <= NextItem.ev.work_hours
                  /\ (WindowFreeHours(w, today, WindowEnd(NextItem.ev))
                          >= NextItem.ev.work_hours)
                        => sent'[j].ev.capacity = NextItem.ev.work_hours]_vars

\* a worker with hours already committed has answered one request in full,
\* over two dates, and another for more hours than it has free in the window
C18_Witness ==
    \E j, j2 \in SentOf("bid_response") :
        /\ \E i \in SentOf("bid_request") :
              /\ sent[i].id = sent[j].cause
              /\ sent[j].ev.capacity < sent[i].ev.work_hours
              /\ sent[j].ev.capacity > 0
        /\ Cardinality(DOMAIN sent[j2].ev.proposed_dates) = 2
        /\ \E i \in SentOf("bid_request") :
              /\ sent[i].id = sent[j2].cause
              /\ sent[j2].ev.capacity = sent[i].ev.work_hours
        /\ \E w \in 1..NumWorkers :
              /\ workers[w].availability # <<>>
              /\ sent[j].ev.worker_id = w
              /\ sent[j2].ev.worker_id = w

\* the Allocations that committing an award appends to an agent's list
AwardAllocations(ev, days) ==
    [k \in 1..Len(days) |->
        Allocation(ev.order_code, ev.worker_id, days[k], ev.allocations[days[k]])]

\* C19: a worker agent that handles an AllocationAward addressed to its own
\* worker has, for each (date, hours) pair, its availability for the date
\* lowered by exactly the hours and one new, not completed Allocation for
\* (order, worker, date, hours) appended to its list, and the order removed
\* from its pending bids; its other dates and allocations stay. An award
\* addressed to another worker changes nothing in the agent.
C19_AwardCommitted ==
    [][\A w \in 1..NumWorkers :
          Takes(w, "allocation_award") =>
              IF NextItem.ev.worker_id = workers[w].id
              THEN /\ \A day \in DOMAIN NextItem.ev.allocations :
                         get_available_hours(workers'[w], day)
                             = get_available_hours(workers[w], day)
                                   - NextItem.ev.allocations[day]
                   /\ \A day \in (today..(today + MaxDays)) \ DOMAIN NextItem.ev.allocations :
                         get_available_hours(workers'[w], day)
                             = get_available_hours(workers[w], day)
                   /\ agents'[w].allocations
                         = agents[w].allocations
                             \o AwardAllocations(NextItem.ev,
                                    SortedKeys(DOMAIN NextItem.ev.allocations))
                   /\ agents'[w].active_bids
                         = agents[w].active_bids \ {NextItem.ev.order_code}
                   /\ \A v \in 1..NumWorkers \ {w} :
                         workers'[v] = workers[v] /\ agents'[v] = agents[v]
              ELSE workers' = workers /\ agents' = agents]_vars

\* a worker agent has bid for an order, then committed an award for it that
\* takes all the free hours of a date, and another agent has taken an award
\* that was not its own
C19_Witness ==
    /\ \E w \in 1..NumWorkers :
          /\ Len(agents[w].allocations) >= 2
          /\ agents[w].active_bids = {}
          /\ \E j \in SentOf("bid_response") : sent[j].ev.worker_id = w
          /\ \E day \in DOMAIN workers[w].availability : workers[w].availability[day] <= 0
    /\ \E i \in SentOf("allocation_award") : \E k \in DeliveriesOf(sent[i].id) :
          delivered[k].agent \in 1..NumWorkers \ {sent[i].ev.worker_id}

\* C20: report_progress(order, quantity, date) puts exactly one
\* ProgressUpdate, for that order, worker, quantity and date, and sets the
\* completed flag of the first allocation of the agent's list with that
\* order and date only: no other allocation changes, and none when no
\* allocation matches.
C20_ReportMarksFirstMatch ==
    [][\A c \in ReportCalls :
          ReportProgress(c[1], c[2], c[3], c[4]) =>
              /\ Len(sent') = Len(sent) + 1
              /\ sent'[Len(sent')].ev
                     = [type |-> "progress_update", order_code |-> c[2],
                        worker_id |-> workers[c[1]].id, qty_done |-> c[3],
                        allocation_date |-> c[4]]
              /\ Len(agents'[c[1]].allocations) = Len(agents[c[1]].allocations)
              /\ \A i \in 1..Len(agents[c[1]].allocations) :
                    agents'[c[1]].allocations[i] =
                        IF /\ i \in Matching(agents[c[1]].allocations, c[2], c[4])
                           /\ \A j \in Matching(agents[c[1]].allocations, c[2], c[4]) : i <= j
                        THEN [agents[c[1]].allocations[i] EXCEPT !.completed = TRUE]
                        ELSE agents[c[1]].allocations[i]
              /\ agents'[c[1]].active_bids = agents[c[1]].active_bids
              /\ \A v \in 1..NumWorkers \ {c[1]} : agents'[v] = agents[v]
              /\ workers' = workers]_vars

\* an agent holds two allocations of one order and date, the first completed
\* by a report, the second not, and an allocation of another date untouched
C20_Witness ==
    /\ last = "report_progress"
    /\ \E w \in 1..NumWorkers : \E i, j, k \in 1..Len(agents[w].allocations) :
          /\ i < j
          /\ agents[w].allocations[i].allocation_date = agents[w].allocations[j].allocation_date
          /\ agents[w].allocations[i].order_code = agents[w].allocations[j].order_code
          /\ agents[w].allocations[i].completed
          /\ ~agents[w].allocations[j].completed
          /\ agents[w].allocations[k].allocation_date
                 # agents[w].allocations[i].allocation_date
          /\ ~agents[w].allocations[k].completed

\* ------------------------------------------- the reports of the scheduler
\* the latest allocation date of a non-empty list of allocations
CompletionDate(allocations) ==
    CHOOSE d \in ScheduleDates(allocations) : \A e \in ScheduleDates(allocations) : e <= d

\* Scheduler.check_delays: the dict of the delays, in days, keyed by
\* order.code; an order found late after another of the same code replaces
\* its entry
check_delays(sch, os) ==
    LET late == {i \in 1..Len(os) :
                    /\ get_order_schedule(sch, os[i].code) # <<>>
                    /\ CompletionDate(get_order_schedule(sch, os[i].code))
                           > DateOf(os[i].due_date)}
    IN  [c \in {os[i].code : i \in late} |->
            LET k == CHOOSE i \in late :
                        /\ os[i].code = c
                        /\ \A j \in late : os[j].code = c => j <= i
            IN  CompletionDate(get_order_schedule(sch, c)) - DateOf(os[k].due_date)]

\* the built schedules the reports are asked about: the state after
\* create_schedule(orders, today, horizon) has returned
QueryInit ==
    /\ calc = SmallCalc
    /\ today = 1
    /\ horizon \in 1..MaxDays
    /\ \E ws \in WorkerPools :
       \E os \in UNION {OrderLists(SchedOrders, n) : n \in 1..MaxOrders} :
       \E r \in {create_schedule(calc, ws, <<>>, os, today, horizon)} :
          /\ r.exc = "none"
          /\ workers = r.workers
          /\ orders = r.orders
          /\ schedule = r.schedule
    /\ exc = "none"
    /\ last = "create_schedule"
    /\ result = None
    /\ calls = 1
    /\ queue = <<>>
    /\ active_bids = <<>>
    /\ agents = <<>>
    /\ sent = <<>>
    /\ delivered = <<>>

\* scheduler.check_delays(orders)
CheckDelays ==
    /\ result' = check_delays(schedule, orders)
    /\ last' = "check_delays"
    /\ UNCHANGED <<calc, workers, orders, schedule, today, horizon, exc, calls, agentVars>>

\* get_worker_load whose loop stores the hours of the allocation instead of
\* adding them
RECURSIVE get_worker_load_Overwrite(_, _)
get_worker_load_Overwrite(ws, sch) ==
    IF sch = <<>> THEN [id \in {ws[i].id : i \in 1..Len(ws)} |-> <<>>]
    ELSE LET worker_load == get_worker_load_Overwrite(ws, SubSeq(sch, 1, Len(sch) - 1))
             allocation == sch[Len(sch)]
         IN  [worker_load EXCEPT ![allocation.worker_id] =
                 (allocation.allocation_date :> allocation.hours) @@ @]

\* Scheduler.get_worker_load: {worker.id: {}} for the workers of the pool,
\* then every allocation of the schedule, in order, added to the entry of
\* its worker and date (an entry that is missing starts at 0)
RECURSIVE get_worker_load(_, _)
get_worker_load(ws, sch) ==
    IF sch = <<>> THEN [id \in {ws[i].id : i \in 1..Len(ws)} |-> <<>>]
    ELSE LET worker_load == get_worker_load(ws, SubSeq(sch, 1, Len(sch) - 1))
             allocation == sch[Len(sch)]
             day == allocation.allocation_date
             before == IF day \in DOMAIN worker_load[allocation.worker_id]
                       THEN worker_load[allocation.worker_id][day] ELSE 0
         IN  [worker_load EXCEPT ![allocation.worker_id] =
                 (day :> (before + allocation.hours)) @@ @]

\* scheduler.get_worker_load()
GetWorkerLoad ==
    /\ result' = get_worker_load(workers, schedule)
    /\ last' = "get_worker_load"
    /\ UNCHANGED <<calc, workers, orders, schedule, today, horizon, exc, calls, agentVars>>

\* the percentage of one order: the float num / den, kept as the pair
Percentage(order) ==
    IF order.ordered_qty * order.cycle_time <= 0 THEN [num |-> 100, den |-> 1]
    ELSE IF order.consumed_qty * order.cycle_time * 100
                > 100 * (order.ordered_qty * order.cycle_time)
         THEN [num |-> 100, den |-> 1]
         ELSE [num |-> order.consumed_qty * order.cycle_time * 100,
               den |-> order.ordered_qty * order.cycle_time]

\* Scheduler.get_order_progress: the dict of the percentages keyed by
\* order.code; a later order of the same code replaces the entry
get_order_progress(os) ==
    [c \in {os[i].code : i \in 1..Len(os)} |->
        LET k == CHOOSE i \in 1..Len(os) :
                    /\ os[i].code = c
                    /\ \A j \in 1..Len(os) : os[j].code = c => j <= i
        IN  Percentage(os[k])]

\* scheduler.get_order_progress(orders)
GetOrderProgress ==
    /\ result' = get_order_progress(orders)
    /\ last' = "get_order_progress"
    /\ UNCHANGED <<calc, workers, orders, schedule, today, horizon, exc, calls, agentVars>>

QueryNext == CheckDelays \/ GetWorkerLoad \/ GetOrderProgress

QuerySpec == QueryInit /\ [][QueryNext]_vars

\* ------------------------------------------------ claims on the reports
\* the orders in the order create_schedule serves them
Ranked == prioritize_orders(calc, orders, today).sorted

\* the state of create_schedule after the first n orders it serves
Served(n) ==
    AllocateOrders(
        [workers |-> [i \in 1..Len(workers) |-> [workers[i] EXCEPT !.availability = <<>>]],
         schedule |-> <<>>, remaining |-> 0, exc |-> "none", orders |-> orders],
        SubSeq(Ranked, 1, n), today, horizon, 1)

\* the allocations create_schedule appends while it serves its n-th order
OwnAllocations(n) ==
    SubSeq(Served(n).schedule, Len(Served(n - 1).schedule) + 1, Len(Served(n).schedule))

\* the place of the i-th order of the input among the orders served
RankOf(i) == CHOOSE n \in 1..Len(Ranked) : Ranked[n].doc_number = orders[i].doc_number

\* the allocations made for the i-th order of the input
AllocationsOf(i) == OwnAllocations(RankOf(i))

\* the i-th order of the input completes after its due date
CompletesLate(i) ==
    /\ AllocationsOf(i) # <<>>
    /\ CompletionDate(AllocationsOf(i)) > DateOf(orders[i].due_date)

\* C21: check_delays returns a map that contains an order if and only if
\* the schedule holds at least one allocation made for it and the latest of
\* them is dated after its due date; the value is that difference in days,
\* always positive; an order without allocations is never in the map.
C21_DelaysPerOrder ==
    last = "check_delays" =>
        \A i \in 1..Len(orders) :
            /\ orders[i].code \in DOMAIN result <=> CompletesLate(i)
            /\ CompletesLate(i) =>
                  /\ result[orders[i].code]
                        = CompletionDate(AllocationsOf(i)) - DateOf(orders[i].due_date)
                  /\ result[orders[i].code] > 0

\* C22: for every worker of the pool and every date, the load that
\* get_worker_load reports is the sum of the hours of the schedule's
\* allocations for that worker on that date (no entry for a date without
\* one); a worker without allocations has an empty load map.
C22_LoadIsSumOfHours ==
    last = "get_worker_load" =>
        /\ DOMAIN result = {workers[i].id : i \in 1..Len(workers)}
        /\ \A i \in 1..Len(workers) :
              /\ DOMAIN result[workers[i].id]
                    = ScheduleDates(get_worker_schedule(schedule, workers[i].id))
              /\ \A day \in DOMAIN result[workers[i].id] :
                    result[workers[i].id][day]
                        = WorkerDayHours(schedule, workers[i].id, day)
              /\ get_worker_schedule(schedule, workers[i].id) = <<>>
                    => DOMAIN result[workers[i].id] = {}

\* the load of a worker with two allocations on one date is reported next
\* to the empty map of a worker without allocations
C22_Witness ==
    /\ last = "get_worker_load"
    /\ \E i \in 1..Len(workers) : \E day \in ScheduleDates(schedule) :
          /\ Len(SelectSeq(schedule, LAMBDA a :
                  a.worker_id = workers[i].id /\ a.allocation_date = day)) >= 2
          /\ result[workers[i].id][day] = 2
    /\ \E i \in 1..Len(workers) : get_worker_schedule(schedule, workers[i].id) = <<>>

\* C23: for every order get_order_progress reports consumed_hours /
\* total_hours x 100 capped at 100, and exactly 100 whenever total_hours <= 0
\* (ordered quantity 0 or cycle time 0); no reported value exceeds 100.
C23_ProgressPerOrder ==
    last = "get_order_progress" =>
        \A i \in 1..Len(orders) :
            /\ orders[i].code \in DOMAIN result
            /\ result[orders[i].code].num <= 100 * result[orders[i].code].den
            /\ orders[i].ordered_qty * orders[i].cycle_time <= 0
                  => result[orders[i].code].num = 100 * result[orders[i].code].den
            /\ orders[i].ordered_qty * orders[i].cycle_time > 0
                  => result[orders[i].code].num
                         * (orders[i].ordered_qty * orders[i].cycle_time)
                     = Min(orders[i].consumed_qty * orders[i].cycle_time * 100,
                           100 * (orders[i].ordered_qty * orders[i].cycle_time))
                         * result[orders[i].code].den

\* ------------------------------------- further claims on the scheduler
\* C24: for every order, in every state, the pending quantity is ordered -
\* consumed and the remaining work hours are pending x cycle_time, also
\* when consumed exceeds ordered: the pending quantity is then negative, and
\* so are the hours for a positive cycle time; nothing is clamped.
C24_PendingAndRemaining ==
    \A i \in 1..Len(orders) :
        /\ pending_qty(orders[i]) = orders[i].ordered_qty - orders[i].consumed_qty
        /\ remaining_work_hours(orders[i])
              = (orders[i].ordered_qty - orders[i].consumed_qty) * orders[i].cycle_time
        /\ orders[i].consumed_qty > orders[i].ordered_qty
              => /\ pending_qty(orders[i]) < 0
                 /\ orders[i].cycle_time > 0 => remaining_work_hours(orders[i]) < 0

\* a scheduled list holds an order that consumed more than was ordered, with
\* negative pending quantity and negative remaining hours
C24_Witness ==
    /\ Returned
    /\ \E i \in 1..Len(orders) :
          /\ orders[i].consumed_qty > orders[i].ordered_qty
          /\ pending_qty(orders[i]) = -1
          /\ remaining_work_hours(orders[i]) = -MaxCycle

\* the workers with the availability maps of a new pool
FreshWorkers == [i \in 1..Len(workers) |-> [workers[i] EXCEPT !.availability = <<>>]]

\* C25: create_schedule is a full rebuild: the schedule and the availability
\* it returns are the ones it returns for the same orders, workers, start
\* date and horizon on a scheduler with an empty schedule and empty
\* availability maps, and a second call in a row with the same inputs
\* leaves the schedule and the availability of the first.
C25_FullRebuild ==
    [][(CreateSchedule /\ exc' = "none") =>
          /\ schedule' = create_schedule(calc, FreshWorkers, <<>>, orders,
                                         today, horizon).schedule
          /\ workers' = create_schedule(calc, FreshWorkers, <<>>, orders,
                                        today, horizon).workers
          /\ Returned => (schedule' = schedule /\ workers' = workers)]_vars

\* a second call has rebuilt a schedule that uses up a worker's date
C25_Witness ==
    /\ Returned
    /\ calls >= 2
    /\ schedule # <<>>
    /\ \E i \in 1..Len(workers) : \E day \in DOMAIN workers[i].availability :
          workers[i].availability[day] = 0

\* worker w may work on the order: no skills, or the order's code among them
Eligible(w, order) == w.skills = {} \/ order.code \in w.skills

\* the n-th order served got fewer hours than it has left
UnderAllocated(n) ==
    /\ remaining_work_hours(Ranked[n]) > 0
    /\ TotalHours(OwnAllocations(n)) < remaining_work_hours(Ranked[n])

\* C26: create_schedule serves the orders by descending priority and, among
\* equal priorities, ascending due date; in the returned schedule the
\* allocations of an order served earlier all precede those of an order
\* served later, and when an order served earlier is left under-allocated
\* no order served later gets hours from a worker eligible for the earlier.
C26_ServedByRank ==
    Returned =>
        /\ Len(Ranked) = Len(orders)
        /\ {Ranked[n].doc_number : n \in 1..Len(Ranked)}
              = {orders[i].doc_number : i \in 1..Len(orders)}
        /\ \A n, m \in 1..Len(Ranked) :
              n < m =>
                 \/ Ranked[n].calculated_priority > Ranked[m].calculated_priority
                 \/ /\ Ranked[n].calculated_priority = Ranked[m].calculated_priority
                    /\ Ranked[n].due_date <= Ranked[m].due_date
        /\ schedule = Served(Len(Ranked)).schedule
        /\ \A n \in 1..Len(Ranked) :
              /\ SubSeq(schedule, 1, Len(Served(n).schedule)) = Served(n).schedule
              /\ \A k \in 1..Len(OwnAllocations(n)) :
                    OwnAllocations(n)[k].order_code = Ranked[n].code
        /\ \A n, m \in 1..Len(Ranked) :
              (n < m /\ UnderAllocated(n)) =>
                 \A k \in 1..Len(OwnAllocations(m)) : \A i \in 1..Len(workers) :
                    workers[i].id = OwnAllocations(m)[k].worker_id
                        => ~Eligible(workers[i], Ranked[n])

\* the order given second is served first for its higher priority and is
\* left under-allocated, and the other order gets hours from a worker that
\* is not eligible for it
C26_Witness ==
    /\ Returned
    /\ Len(orders) = 2
    /\ Ranked[1].doc_number = 2
    /\ Ranked[1].calculated_priority > Ranked[2].calculated_priority
    /\ UnderAllocated(1)
    /\ OwnAllocations(1) # <<>>
    /\ OwnAllocations(2) # <<>>

\* the dates create_schedule allocates on
WorkDates == today..(today + horizon - 1)

\* an order of the list has a manual priority below zero
NegativeOverride ==
    \E i \in 1..Len(orders) :
        orders[i].priority_manual # None /\ orders[i].priority_manual < 0

\* when the n-th order served was done, no worker eligible for it had hours
\* left on any date of the horizon
EligibleExhausted(n) ==
    \A i \in 1..Len(workers) : \A day \in WorkDates :
        Eligible(workers[i], Ranked[n])
            => get_available_hours(Served(n).workers[i], day) = 0

\* C27 as stated: create_schedule always returns a schedule without raising,
\* and an order is left with fewer hours than it has left only if every
\* eligible worker was exhausted on every date of the horizon.
C27_Original ==
    last = "create_schedule" =>
        /\ exc = "none"
        /\ \A n \in 1..Len(Ranked) : UnderAllocated(n) => EligibleExhausted(n)

\* C27 amended: create_schedule raises ValueError exactly when an order of
\* the list has a negative manual priority, and otherwise returns a
\* schedule, also when the capacity is insufficient; an order is then left
\* with fewer hours than it has left only if every eligible worker was
\* exhausted on every date of the horizon when the order was done.
C27_ReturnsUnlessNegativeOverride ==
    last = "create_schedule" =>
        /\ exc \in {"none", "ValueError"}
        /\ exc = "ValueError" <=> NegativeOverride
        /\ exc = "none" =>
              \A n \in 1..Len(Ranked) : UnderAllocated(n) => EligibleExhausted(n)

\* an order got some hours of two eligible workers and is left short
C27_Witness ==
    /\ Returned
    /\ \E n \in 1..Len(Ranked) :
          /\ UnderAllocated(n)
          /\ Len(OwnAllocations(n)) >= 2
          /\ \A i \in 1..Len(workers) : Eligible(workers[i], Ranked[n])

\* C28: every allocation of a schedule create_schedule returns names the
\* code of an order of the input and a worker of the pool whose skill set
\* is empty or contains that code, has strictly positive hours, and is
\* dated within start_date .. start_date + horizon_days - 1.
C28_AllocationsWellFormed ==
    Returned =>
        \A k \in 1..Len(schedule) :
            /\ \E i \in 1..Len(orders) : orders[i].code = schedule[k].order_code
            /\ \E i \in 1..Len(workers) :
                  /\ workers[i].id = schedule[k].worker_id
                  /\ \/ workers[i].skills = {}
                     \/ schedule[k].order_code \in workers[i].skills
            /\ schedule[k].hours > 0
            /\ schedule[k].allocation_date >= today
            /\ schedule[k].allocation_date <= today + horizon - 1

\* a schedule for an order that only the worker without skills may take,
\* while a worker with other skills stays free, reaching the last date
C28_Witness ==
    /\ Returned
    /\ \E k \in 1..Len(schedule) :
          /\ schedule[k].order_code = "B"
          /\ schedule[k].allocation_date = today + horizon - 1
          /\ schedule[k].allocation_date > today
    /\ \E i \in 1..Len(workers) :
          /\ workers[i].skills = {"A"}
          /\ get_worker_schedule(schedule, workers[i].id) = <<>>

\* the state of create_schedule when the n-th order served reaches the date
\* start_date + d: the earlier orders and the earlier dates of the order done
ReachedDate(n, d) ==
    AllocateDays([Served(n - 1) EXCEPT !.remaining = remaining_work_hours(Ranked[n])],
                 Ranked[n], today, d, 0)

\* the allocations the n-th order served gets on the date start_date + d
DateAllocations(n, d) ==
    SubSeq(ReachedDate(n, d + 1).schedule,
           Len(ReachedDate(n, d).schedule) + 1, Len(ReachedDate(n, d + 1).schedule))

\* the places, among the allocations of the order on the date, of those of
\* the worker
PlacesOf(n, d, worker_id) ==
    {k \in 1..Len(DateAllocations(n, d)) : DateAllocations(n, d)[k].worker_id = worker_id}

\* C29: within create_schedule, on each date an order takes hours from its
\* eligible workers in descending order of the hours they have available on
\* the date when the order reaches it: a worker gets an allocation only
\* after every eligible worker with strictly more available hours got one
\* that used up all the hours it had on the date.
C29_MostAvailableFirst ==
    Returned =>
        \A n \in 1..Len(Ranked) : \A d \in 0..(horizon - 1) :
            remaining_work_hours(Ranked[n]) > 0 =>
                \A u, v \in 1..Len(workers) :
                    (/\ Eligible(workers[u], Ranked[n])
                     /\ Eligible(workers[v], Ranked[n])
                     /\ get_available_hours(ReachedDate(n, d).workers[u], today + d)
                           > get_available_hours(ReachedDate(n, d).workers[v], today + d)
                     /\ PlacesOf(n, d, workers[v].id) # {})
                    => /\ get_available_hours(ReachedDate(n, d + 1).workers[u], today + d) = 0
                       /\ PlacesOf(n, d, workers[u].id) # {}
                       /\ \A k \in PlacesOf(n, d, workers[u].id) :
                          \A j \in PlacesOf(n, d, workers[v].id) : k < j

\* on one date an order takes the hours of the second worker of the pool
\* first, which has more left than the first worker after an earlier order
C29_Witness ==
    /\ Returned
    /\ \E n \in 1..Len(Ranked) : \E d \in 0..(horizon - 1) :
          /\ n > 1
          /\ remaining_work_hours(Ranked[n]) > 0
          /\ Len(DateAllocations(n, d)) = 2
          /\ DateAllocations(n, d)[1].worker_id = workers[2].id
          /\ DateAllocations(n, d)[2].worker_id = workers[1].id
          /\ get_available_hours(ReachedDate(n, d).workers[2], today + d)
                > get_available_hours(ReachedDate(n, d).workers[1], today + d)
          /\ workers[1].hours_per_day >= workers[2].hours_per_day

\* C30: an order whose remaining work hours are zero or negative is treated
\* as fully satisfied by create_schedule: serving it adds no allocation and
\* changes no worker's availability, and a product code whose orders all
\* have no hours left is on no allocation of the schedule.
C30_SatisfiedOrderSkipped ==
    Returned =>
        /\ \A n \in 1..Len(Ranked) :
              remaining_work_hours(Ranked[n]) <= 0 =>
                 /\ OwnAllocations(n) = <<>>
                 /\ Served(n).schedule = Served(n - 1).schedule
                 /\ Served(n).workers = Served(n - 1).workers
        /\ \A c \in {orders[i].code : i \in 1..Len(orders)} :
              (\A i \in 1..Len(orders) :
                  orders[i].code = c => remaining_work_hours(orders[i]) <= 0)
                 => get_order_schedule(schedule, c) = <<>>

\* an order that consumed more than was ordered is served after an order
\* that got hours, and gets none although an eligible worker has hours left
C30_Witness ==
    /\ Returned
    /\ Len(Ranked) = 2
    /\ OwnAllocations(1) # <<>>
    /\ remaining_work_hours(Ranked[2]) < 0
    /\ OwnAllocations(2) = <<>>
    /\ \E i \in 1..Len(workers) :
          /\ Eligible(workers[i], Ranked[2])
          /\ get_available_hours(workers[i], today) > 0

\* --------------------------------- further claims on the processing of bids
\* the hours proposed by the responses of the round whose capacity is
\* larger than that of the k-th response
LargerProposals(bids, k) ==
    SumSeq([i \in 1..Len(bids) |->
               IF bids[i].capacity > bids[k].capacity
               THEN SumValues(bids[i].proposed_dates) ELSE 0])

AwardedWorkers ==
    LET st == AwardBids([allocations |-> <<>>, served |-> <<>>,
                         remaining |-> remaining_work_hours(orders[1])],
                        StableSorted(active_bids[1],
                            LAMBDA a, b : a.capacity > b.capacity,
                            LAMBDA a, b : a.capacity = b.capacity))
    IN  SelectSeq(st.served, LAMBDA w : DOMAIN st.allocations[w] # {})

\* C32: closing a round puts exactly one AllocationAward for each worker
\* that was given a non-empty allocation and none for the others, removes
\* the round's response set, and puts exactly one ScheduleUpdated after all
\* the awards.
C32_CloseEmitsAwardsThenUpdate ==
    [][(last' = "process_bids" /\ last = "init") =>
          /\ exc' = "none"
          /\ 1 \notin DOMAIN active_bids'
          /\ Len(sent') = Len(AwardedWorkers) + 1
          /\ \A j \in 1..Len(AwardedWorkers) :
                /\ sent'[j].ev.type = "allocation_award"
                /\ sent'[j].ev.worker_id = AwardedWorkers[j]
          /\ sent'[Len(sent')].ev = ScheduleUpdated
          /\ queue' = sent']_vars

\* ------------------------------------- claims on the coordinator's rebuild
\* a worker agent has committed an AllocationAward
AwardCommitted == \E w \in 1..NumWorkers : agents[w].allocations # <<>>

C34_AvailabilityMatchesSchedule ==
    Returned =>
        \A i \in 1..Len(workers) : \A day \in WorkDates :
            /\ get_available_hours(workers[i], day)
                  + WorkerDayHours(schedule, workers[i].id, day)
                  = workers[i].hours_per_day
            /\ get_available_hours(workers[i], day) >= 0
            /\ get_available_hours(workers[i], day) <= workers[i].hours_per_day

\* after a build a worker's date is used up by two allocations, a worker's
\* date is partly used, and a worker has been asked for nothing
C34_Witness ==
    /\ Returned
    /\ \E i \in 1..Len(workers) : \E day \in WorkDates :
          /\ get_available_hours(workers[i], day) = 0
          /\ Len(SelectSeq(schedule, LAMBDA a :
                  a.worker_id = workers[i].id /\ a.allocation_date = day)) >= 2
    /\ \E i \in 1..Len(workers) : \E day \in WorkDates :
          /\ get_available_hours(workers[i], day) > 0
          /\ get_available_hours(workers[i], day) < workers[i].hours_per_day
    /\ \E i \in 1..Len(workers) : workers[i].availability = <<>>

C36_BidReservesNothing ==
    [][\A w \in 1..NumWorkers :
          Takes(w, "bid_request") =>
             /\ workers' = workers
             /\ agents'[w].allocations = agents[w].allocations
             /\ \A v \in 1..NumWorkers : v # w => agents'[v] = agents[v]
             /\ agents'[w].active_bids
                   \in {agents[w].active_bids,
                        agents[w].active_bids \cup {NextItem.ev.order_code}}
             /\ Len(sent') <= Len(sent) + 1
             /\ \A j \in (Len(sent) + 1)..Len(sent') :
                   sent'[j].ev.type = "bid_response"]_vars

\* a worker that has committed no award has answered two BidRequests with
\* proposals for the same date that together exceed its hours of the day
C36_Witness ==
    \E w \in 1..NumWorkers : \E i, j \in 1..Len(sent) :
        /\ i < j
        /\ sent[i].ev.type = "bid_response"
        /\ sent[j].ev.type = "bid_response"
        /\ sent[i].ev.worker_id = workers[w].id
        /\ sent[j].ev.worker_id = workers[w].id
        /\ sent[i].cause # sent[j].cause
        /\ agents[w].allocations = <<>>
        /\ workers[w].availability = <<>>
        /\ \E day \in DOMAIN sent[i].ev.proposed_dates \cap DOMAIN sent[j].ev.proposed_dates :
              sent[i].ev.proposed_dates[day] + sent[j].ev.proposed_dates[day]
                  > workers[w].hours_per_day

\* ------------------------------------------ further claims on the agent run
\* the kinds of event the coordinator's loop has no branch for
PlannerUnhandled == {"bid_request", "allocation_award", "schedule_updated"}

\* the kinds of event a worker agent's loop has no branch for
WorkerUnhandled ==
    {"order_created", "order_updated", "bid_response", "progress_update",
     "priority_change", "schedule_updated"}

\* the agent a takes an event of a kind it has no handler for
TakesUnhandled(a) ==
    \E t \in (IF a = Planner THEN PlannerUnhandled ELSE WorkerUnhandled) : Takes(a, t)

\* C37: an agent that takes a message of a kind it has no handler for
\* discards it: the message leaves the channel and is not put back, nothing
\* is put, no state of any agent changes, no error is raised, and the
\* message was and will be handed to no other agent.
C37_UnhandledDiscarded ==
    [][\A a \in {Planner} \cup (1..NumWorkers) :
          TakesUnhandled(a) =>
             /\ queue' = Tail(queue)
             /\ \A j \in 1..Len(queue') : queue'[j].id # NextItem.id
             /\ sent' = sent
             /\ DeliveriesOf(NextItem.id) = {}
             /\ exc' = "none"
             /\ UNCHANGED <<workers, orders, schedule, active_bids, agents>>]_vars

\* the coordinator has discarded a BidRequest and a worker agent an
\* OrderCreated, and the run goes on with an empty channel
C37_Witness ==
    /\ Running
    /\ queue = <<>>
    /\ \E i \in SentOf("bid_request") : \E k \in DeliveriesOf(sent[i].id) :
          delivered[k].agent = Planner
    /\ \E i \in SentOf("order_created") : \E k \in DeliveriesOf(sent[i].id) :
          delivered[k].agent \in 1..NumWorkers
    /\ orders = <<>>
    /\ PutBy(1, "bid_response") = {} /\ PutBy(2, "bid_response") = {}

\* ----------------------------- the frame of the coordinator's bid processing
\* C38: processing the bids of a round leaves the coordinator's schedule,
\* every field of its orders and the workers unchanged: the hours it gives
\* are on no allocation of the coordinator's schedule.
C38_BidsLeaveScheduleAndOrders ==
    [][(last = "init" /\ last' = "process_bids") =>
          /\ schedule' = schedule
          /\ orders' = orders
          /\ workers' = workers]_vars

\* a round was processed whose allocation table gives hours to both workers,
\* and the coordinator's schedule holds no allocation
C38_Witness ==
    /\ last = "process_bids"
    /\ 1 \in DOMAIN active_bids
    /\ Len(AwardedWorkers) = NumWorkers
    /\ schedule = <<>>
    /\ remaining_work_hours(orders[1]) > 0

\* ------------------------------------------ the coordinator, updating an order
\* the manual priorities of the orders the coordinator holds
Overrides == {None, 0, 4, 5}

\* the OrderUpdated events put for the order "A": with a manual priority or
\* without
UpdateEvents ==
    {NewEvent("order_updated", OrderUpdatedParams,
              [order_code |-> "A", ordered_qty |-> q, consumed_qty |-> 0,
               due_date |-> d, priority_manual |-> m]).event :
        q \in 0..MaxQty, d \in {EarlyDue, LateDue}, m \in {None, 3}}

\* a coordinator that has stored one order with no work left (a created order
\* with work left ends the run, C11), with a manual priority or without
UpdateInit ==
    /\ calc = TestCalc
    /\ workers = AgentWorkers
    /\ orders \in {<<Order("A", 1, q, q, 1, LateDue, m)>> :
                      q \in 0..MaxQty, m \in Overrides}
    /\ schedule = <<>>
    /\ today = 1
    /\ horizon = MaxDays
    /\ exc = "none"
    /\ last = "init"
    /\ result = None
    /\ calls = 0
    /\ queue = <<>>
    /\ active_bids = <<>>
    /\ agents = [i \in 1..NumWorkers |-> [allocations |-> <<>>, active_bids |-> {}]]
    /\ sent = <<>>
    /\ delivered = <<>>

UpdateNext ==
    \/ \E e \in UpdateEvents : Put(e)
    \/ PlannerOrderChange

UpdateSpec == UpdateInit /\ [][UpdateNext]_vars

\* C39: when the coordinator handles an OrderUpdated for an order it holds,
\* an event without a manual priority leaves the order's manual override as
\* it is and an event with one replaces it, the handling raises no error,
\* and an order that has an override afterwards has min(override, 5) as its
\* computed priority.
C39_UpdateKeepsOverride ==
    [][(Takes(Planner, "order_updated") /\ NamesKnownOrder(NextItem.ev)) =>
          /\ exc' = "none"
          /\ orders'[1].priority_manual =
                IF NextItem.ev.priority_manual = None
                THEN orders[1].priority_manual
                ELSE NextItem.ev.priority_manual
          /\ orders'[1].priority_manual # None =>
                orders'[1].calculated_priority = Min(orders'[1].priority_manual, 5)]_vars

\* ------------------------------------- claims on the creation of known orders
\* C40: an OrderCreated for a document number the coordinator already knows
\* replaces the stored order (the table keeps one order and one round per
\* document number) and, when the new order has positive remaining hours,
\* leaves the order's collected responses empty and puts one new BidRequest
\* without an error.
C40_RecreatedOrderReopensRound ==
    [][(/\ Takes(Planner, "order_created")
        /\ OrderIndex(orders, NextItem.ev.doc_number) # 0) =>
          /\ Len(orders') = Len(orders)
          /\ \A i \in 1..Len(orders') :
                orders'[i].doc_number = NextItem.ev.doc_number =>
                    /\ i = OrderIndex(orders, NextItem.ev.doc_number)
                    /\ orders'[i].ordered_qty = NextItem.ev.ordered_qty
                    /\ orders'[i].consumed_qty = NextItem.ev.consumed_qty
          /\ EventHours(NextItem.ev) > 0 =>
                /\ exc' = "none"
                /\ NextItem.ev.doc_number \in DOMAIN active_bids'
                /\ active_bids'[NextItem.ev.doc_number] = <<>>
                /\ \E j \in (Len(sent) + 1)..Len(sent') :
                      /\ sent'[j].ev.type = "bid_request"
                      /\ sent'[j].cause = NextItem.id]_vars

====
